---- MODULE Spec2Model ----
(***************************************************************************)
(* Model of the landing-page script bundle: the seeded shape generator     *)
(* (SeededRandom, name hashing), the profile card class togglers, the      *)
(* Typebot message handlers, the colour switcher and the Swiper controller.*)
(*                                                                         *)
(* Numbers.  TLC's integers are 32-bit, JavaScript's are IEEE doubles, so  *)
(* a number is kept as a little-endian sequence of 16-bit limbs and the    *)
(* double arithmetic of SeededRandom.next (exact below 2^53, rounded to 53 *)
(* significant bits above) is computed on the limbs.                       *)
(***************************************************************************)
EXTENDS Integers, Sequences, FiniteSets, TLC

VARIABLES
  gen,         \* the SeededRandom objects: how each was constructed, its seed, its outputs
  clock,       \* Date.now(), in milliseconds after ClockBase
  firstCall,   \* the result of a call of getPersonalizationFromName
  secondCall,  \* the result of the next call with the same name
  layout,      \* the profile cards the page holds
  viewport,    \* "desktop" or "mobile": which cards the stylesheet shows
  cards,       \* per card: its classes, its faces' classes, its toggleState
  emailHandler,    \* the TypebotEmailHandler object and its message listeners
  targetCard,      \* CardRotationManager.targetCard of the LogoCardToggle
  emailRotations,  \* times an email message applied the rotation classes
  logoClicks,      \* per card: logo clicks since its rotate class was last set otherwise
  lastToggle,      \* what the last toggle returned, dispatched and left on the card
  cardClicks,      \* per card: clicks on it since its toggleState was last set otherwise
  container,       \* whether the page holds the .swiper.is-landingpage container
  swiper,          \* SwiperController.swiper: the Swiper instance
  controller,      \* the SwiperController's fields and its message listeners
  timers,          \* the pending setTimeout callbacks, with the time each has left
  completion,      \* how far the last completion message that started a delay got
  nameReplacer,    \* the TypebotNameReplacer object and its message listeners
  nameElements,    \* the [card-info="name"] elements: text and name-updated class
  svg,             \* the SVGIllustrationGenerator, its document listeners, lastPersonalization
  illustrations,   \* the [card-info="ilustration"] elements: path data, fill, opacity
  switcher,        \* the CardColorSwitcher and its document listener
  themeSvgColor,   \* the main card's data-theme-svg-color attribute
  lastEvent,       \* the detail of the last user-name-personalization event dispatched
  personalized,    \* the paths shown when that event was handled, and what happened since
  drawing,         \* the shape last generated for one element, with how far it reaches
  tilt             \* the tilt effect of initProfileCardTilt on the main card

randomVars == <<gen, clock>>
nameVars   == <<firstCall, secondCall>>
cardVars   == <<layout, viewport, cards, emailHandler, targetCard,
                emailRotations, logoClicks, lastToggle, cardClicks, tilt>>
swiperVars == <<container, swiper, controller, timers, completion>>
replacerVars == <<nameReplacer, nameElements>>
starVars   == <<svg, illustrations>>
themeVars  == <<switcher, themeSvgColor>>
eventVars  == <<lastEvent, personalized>>
shapeVars  == <<drawing>>
personalVars == <<replacerVars, starVars, themeVars, eventVars>>
vars       == <<randomVars, shapeVars, nameVars, cardVars, swiperVars, personalVars>>

\* What the operations of one part of the bundle leave alone
exceptRandom == <<shapeVars, nameVars, cardVars, swiperVars, personalVars>>
exceptNames  == <<randomVars, shapeVars, cardVars, swiperVars, personalVars>>
exceptCards  == <<randomVars, shapeVars, nameVars, swiperVars, personalVars>>
exceptSwiper == <<randomVars, shapeVars, nameVars, cardVars, personalVars>>
exceptCardsAndReplacer == <<randomVars, shapeVars, nameVars, swiperVars, starVars, themeVars, eventVars>>
exceptCardsAndStars    == <<randomVars, shapeVars, nameVars, swiperVars, replacerVars, themeVars, lastEvent>>
exceptStarsAndThemes   == <<randomVars, shapeVars, nameVars, swiperVars, cardVars, replacerVars>>
exceptShapes == <<randomVars, nameVars, cardVars, swiperVars, personalVars>>

\* The element of a one-element set.  A value is computed once when it is
\* bound as the element of a set, so intermediate results are chained
\* through such bindings.
The(set) == CHOOSE x \in set : TRUE

Min(a, b) == IF a < b THEN a ELSE b

\* ------------------------------------------------------------------------
\* Limb arithmetic (helpers for the double arithmetic of the source)
\* ------------------------------------------------------------------------

\* One limb holds 16 bits.
LimbBase == 256 * 256

\* The 53 significant bits of an IEEE double.
DoubleBits == 53

RECURSIVE Pow2(_)
Pow2(k) == IF k = 0 THEN 1 ELSE 2 * Pow2(k - 1)

RECURSIVE BitLen(_)
BitLen(x) == IF x = 0 THEN 0 ELSE 1 + BitLen(x \div 2)

\* Propagate carries through a sequence of column sums (little-endian).
RECURSIVE Carry(_, _)
Carry(cols, c) ==
  IF cols = <<>> THEN <<>>
  ELSE <<(Head(cols) + c) % LimbBase>>
       \o Carry(Tail(cols), (Head(cols) + c) \div LimbBase)

Limb(n, i) == IF i >= 1 /\ i <= Len(n) THEN n[i] ELSE 0

\* x + y on limbs, the result Len wide.
AddLimbs(x, y, len) == Carry([i \in 1..len |-> Limb(x, i) + Limb(y, i)], 0)

\* Propagate borrows through a sequence of column differences.
RECURSIVE Borrow(_, _)
Borrow(cols, b) ==
  IF cols = <<>> THEN <<>>
  ELSE <<(Head(cols) - b + LimbBase) % LimbBase>>
       \o Borrow(Tail(cols), IF Head(cols) - b < 0 THEN 1 ELSE 0)

\* x - y on limbs for x >= y, the result len wide.
SubLimbs(x, y, len) == Borrow([i \in 1..len |-> Limb(x, i) - Limb(y, i)], 0)

\* x > y on limbs, compared from limb i down.
RECURSIVE GreaterLimbs(_, _, _)
GreaterLimbs(x, y, i) ==
  IF i = 0 THEN FALSE
  ELSE IF Limb(x, i) # Limb(y, i) THEN Limb(x, i) > Limb(y, i)
  ELSE GreaterLimbs(x, y, i - 1)

\* (mLo + mHi * 2^16) * x on limbs, the result len wide.
MulLimbs(mLo, mHi, x, len) ==
  Carry([i \in 1..len |-> mLo * Limb(x, i) + mHi * Limb(x, i - 1)], 0)

RECURSIVE TopLimb(_, _)
TopLimb(n, i) == IF i = 0 THEN 0 ELSE IF n[i] # 0 THEN i ELSE TopLimb(n, i - 1)

BitLenLimbs(n) ==
  LET t == TopLimb(n, Len(n))
  IN IF t = 0 THEN 0 ELSE 16 * (t - 1) + BitLen(n[t])

\* Round a natural to the nearest double (ties to even).  The numbers of the
\* model have at most 69 bits, so at most the 16 low bits are dropped.
RoundToDouble(n) ==
  LET k == BitLenLimbs(n) - DoubleBits
  IN IF k <= 0 THEN n
     ELSE LET unit == Pow2(k)
              r    == n[1] % unit
              half == unit \div 2
              odd  == IF k < 16 THEN (n[1] \div unit) % 2 = 1 ELSE n[2] % 2 = 1
              down == [n EXCEPT ![1] = n[1] - r]
              up   == IF k < 16
                      THEN AddLimbs(down, <<unit>>, Len(n))
                      ELSE AddLimbs(down, <<0, 1>>, Len(n))
          IN IF r > half \/ (r = half /\ odd) THEN up ELSE down

\* A small natural as limbs.
ToLimbs(n, len) ==
  [i \in 1..len |-> IF i = 1 THEN n % LimbBase
                    ELSE IF i = 2 THEN n \div LimbBase ELSE 0]

\* ------------------------------------------------------------------------
\* SeededRandom (svg-illustration-generator.ts)
\* ------------------------------------------------------------------------

\* The start value of djb2 (name-based-personalization.ts).
HashStart == 5381

\* LCG parameters; the modulus 2^32 is two limbs.
LcgA == 1664525
LcgC == 1013904223

\* A seed is three limbs (48 bits: every 32-bit hash and every Date.now()).
\* Calls of next() followed per generator, and clock ticks followed.
MaxCalls == 3
MaxClock == 2

GenIds == {"g1", "g2"}

\* The constructor's argument when none is given.
NoSeed == <<>>

\* Date.now() when the clock is at 0: a millisecond count of 2023.
ClockBase == <<14464, 53239, 395>>

DateNow == AddLimbs(ClockBase, <<clock>>, 3)

\* A seed is the three limbs of its magnitude; a negative seed has a fourth
\* element.
IsNegative(seed) == Len(seed) = 4

Negative(magnitude) == <<magnitude[1], magnitude[2], magnitude[3], 1>>

\* The seeds handed to the constructor: 0, 1, djb2's 5381, 2^32 - 1, a
\* millisecond count, -1, -1000, or none.
SeedArgs ==
  {<<0, 0, 0>>, <<1, 0, 0>>, <<HashStart, 0, 0>>, <<65535, 65535, 0>>,
   <<7, 100, 420>>, Negative(<<1, 0, 0>>), Negative(<<1000, 0, 0>>), NoSeed}

\* The constructor with seed || Date.now(): a seed of 0 is replaced too.
SeededRandomInitFalsy(seed) ==
  IF seed = NoSeed \/ seed = <<0, 0, 0>> THEN DateNow ELSE seed

\* this.seed = seed ?? Date.now(): only a missing seed is replaced, 0 is kept.
SeededRandomInit(seed) == IF seed = NoSeed THEN DateNow ELSE seed

\* this.seed = (a * this.seed + c) % m, in double arithmetic: the product
\* and the sum are each rounded to a double, the remainder is exact.
\* For a negative seed the sum is c minus the product's magnitude; the
\* remainder of a negative sum has the sum's sign in JavaScript, and a
\* remainder of -0 is kept as 0.
LcgStep(seed) ==
  The({The({IF ~(IsNegative(seed) /\ GreaterLimbs(prod, ToLimbs(LcgC, 5), 5))
              THEN <<sum[1], sum[2], 0>>
            ELSE IF sum[1] = 0 /\ sum[2] = 0 THEN <<0, 0, 0>>
            ELSE Negative(<<sum[1], sum[2], 0>>) :
            sum \in {RoundToDouble(
                       IF ~IsNegative(seed) THEN AddLimbs(prod, ToLimbs(LcgC, 5), 5)
                       ELSE IF GreaterLimbs(prod, ToLimbs(LcgC, 5), 5)
                         THEN SubLimbs(prod, ToLimbs(LcgC, 5), 5)
                       ELSE SubLimbs(ToLimbs(LcgC, 5), prod, 5))}}) :
       prod \in {RoundToDouble(MulLimbs(LcgA % LimbBase, LcgA \div LimbBase,
                                        <<seed[1], seed[2], seed[3]>>, 5))}})

\* return this.seed / m: the fraction num / 2^32, exact in a double, with
\* the seed's sign.
SeedFraction(seed) ==
  [num |-> <<seed[1], seed[2]>>, denBits |-> 32, negative |-> IsNegative(seed)]

\* next(): the new seed and the value returned.
SeededRandomNext(seed) ==
  LET s == LcgStep(seed) IN [seed |-> s, value |-> SeedFraction(s)]

\* nextInt(min, max) on the seed: floor(next() * (max - min + 1)) + min.
SeededRandomNextInt(seed, min, max) ==
  LET s == LcgStep(seed)
  IN [seed |-> s, value |-> MulLimbs(max - min + 1, 0, s, 3)[3] + min]

\* nextFloat that adds max instead of min
SeededRandomNextFloatFromMax(seed, min, max) ==
  LET s == LcgStep(seed)
  IN [seed |-> s, value |-> AddLimbs(MulLimbs(max - min, 0, s, 3), <<0, 0, max>>, 3)]

\* nextFloat(min, max) on the seed, for min and max given in tenths:
\* next() * (max - min) + min, as the numerator of a fraction of 10 * 2^32.
SeededRandomNextFloat(seed, min, max) ==
  LET s == LcgStep(seed)
  IN [seed |-> s, value |-> AddLimbs(MulLimbs(max - min, 0, s, 3), <<0, 0, min>>, 3)]

\* new SeededRandom(seed)
NewGenerator(g, seed) ==
  /\ gen' = [gen EXCEPT ![g] = [made |-> TRUE, arg |-> seed,
                                 seed |-> SeededRandomInit(seed), outs |-> <<>>]]
  /\ UNCHANGED <<clock, exceptRandom>>

\* g.next()
GenNext(g) ==
  /\ gen[g].made
  /\ Len(gen[g].outs) < MaxCalls
  /\ LET r == SeededRandomNext(gen[g].seed)
     IN gen' = [gen EXCEPT ![g].seed = r.seed,
                           ![g].outs = Append(gen[g].outs, r.value)]
  /\ UNCHANGED <<clock, exceptRandom>>

\* A millisecond passes.
ClockTick ==
  /\ clock < MaxClock
  /\ clock' = clock + 1
  /\ UNCHANGED <<gen, exceptRandom>>

\* A call not made yet; a call made is the one-element sequence of its result.
NoResult == <<>>

\* ------------------------------------------------------------------------
\* Name-based personalization (name-based-personalization.ts)
\* A string is the sequence of its UTF-16 code units.
\* ------------------------------------------------------------------------

\* n \div d and n % d for a small divisor, by long division from the top limb.
RECURSIVE DivModLimbs(_, _, _, _)
DivModLimbs(n, d, i, rem) ==
  IF i = 0 THEN [quot |-> <<>>, rem |-> rem]
  ELSE LET cur  == rem * LimbBase + n[i]
           rest == DivModLimbs(n, d, i - 1, cur % d)
       IN [quot |-> rest.quot \o <<cur \div d>>, rem |-> rest.rem]

DivLimbs(n, d) == DivModLimbs(n, d, Len(n), 0).quot
ModLimbs(n, d) == DivModLimbs(n, d, Len(n), 0).rem

\* hash = (hash << 5) + hash + charCode.  Only (hash << 5) and the final
\* (hash | 0) read the value, both through ToInt32, so the double is kept
\* as its residue mod 2^32 (two limbs).
HashChar(hash, code) ==
  LET shifted == MulLimbs(32, 0, hash, 2)
  IN AddLimbs(AddLimbs(shifted, hash, 2), ToLimbs(code, 2), 2)

RECURSIVE HashLoop(_, _, _)
HashLoop(hash, str, i) ==
  IF i > Len(str) THEN hash ELSE HashLoop(HashChar(hash, str[i]), str, i + 1)

\* Math.abs(hash | 0): the magnitude of the signed 32-bit value, 0..2^31.
AbsInt32(h) ==
  IF h[2] >= 32768
  THEN Carry(<<(LimbBase - 1 - h[1]) + 1, LimbBase - 1 - h[2]>>, 0)
  ELSE h

\* hashString with the accumulator kept between calls instead of restarted.
hashStringKept(str) ==
  AbsInt32(HashLoop(IF firstCall = NoResult THEN ToLimbs(HashStart, 2)
                    ELSE firstCall[1].hash, str, 1))

hashString(str) == AbsInt32(HashLoop(ToLimbs(HashStart, 2), str, 1))

\* hash % 7
getThemeIndexFromName(name) == ModLimbs(hashString(name), 7)

\* getShapeIndexFromName that takes the hash itself modulo 3
getShapeIndexFromHash(name) == ModLimbs(hashString(name), 3)

\* Math.floor((hash / 7) % 3): hash / 7 is at least 1/7 away from the next
\* integer unless it is one, so the rounding of the division is not seen.
getShapeIndexFromName(name) == ModLimbs(DivLimbs(hashString(name), 7), 3)

getSeedFromName(name) == hashString(name) \o <<0>>

ThemeNames ==
  <<"Renda Fixa", "Fundo de Investimento", "Renda Variavel", "Internacional",
    "COE", "Previdencia", "Outros">>

ShapeNames == <<"Rounded Star", "Variant Star", "Distorted Star">>

getThemeNameFromIndex(index) == ThemeNames[(index % 7) + 1]

getShapeNameFromIndex(index) == ShapeNames[(index % 3) + 1]

getPersonalizationFromName(name) ==
  LET themeIndex == getThemeIndexFromName(name)
      shapeIndex == getShapeIndexFromName(name)
  IN [name       |-> name,
      hash       |-> hashString(name),
      themeIndex |-> themeIndex,
      themeName  |-> getThemeNameFromIndex(themeIndex),
      shapeIndex |-> shapeIndex,
      shapeName  |-> getShapeNameFromIndex(shapeIndex),
      seed       |-> getSeedFromName(name)]

\* The names tried: every string over NameChars of at most MaxNameLen units,
\* and the names glidpk and ewmjsta, whose 32-bit hashes are 0 and -2^31.
MaxNameLen == 6

NameChars == {97, 111, 227}

EdgeNames == {<<103, 108, 105, 100, 112, 107>>, <<101, 119, 109, 106, 115, 116, 97>>}

Names == UNION {[1..n -> NameChars] : n \in 0..MaxNameLen} \cup EdgeNames

\* A call of getPersonalizationFromName(name).
CallFirst(name) ==
  /\ firstCall = NoResult
  /\ firstCall' = <<getPersonalizationFromName(name)>>
  /\ secondCall' = NoResult
  /\ UNCHANGED exceptNames

\* A later call with the same name.
CallSecond ==
  /\ firstCall # NoResult
  /\ secondCall = NoResult
  /\ secondCall' = <<getPersonalizationFromName(firstCall[1].name)>>
  /\ UNCHANGED <<firstCall, exceptNames>>

\* Both results are dropped; another name can be tried.
CallsForgotten ==
  /\ secondCall # NoResult
  /\ firstCall' = NoResult
  /\ secondCall' = NoResult
  /\ UNCHANGED exceptNames

\* ------------------------------------------------------------------------
\* The profile cards of the page and the classes the handlers toggle
\* ------------------------------------------------------------------------

\* The cards a page can hold, in document order: "main" and "second" carry
\* the class profile-card_wrapper, "mobile" the class
\* profile-card_wrapper-mobile.  Each card holds its own .front-elements,
\* .rotation-elements, .visual-block-card and .shadow-yellow.
CardOrder == <<"main", "second", "mobile">>
CardIds == {"main", "second", "mobile"}
WrapperCards == {"main", "second"}
MobileCards == {"mobile"}
NoCard == "none"

\* The pages the script can be loaded on, by the cards they hold.
Layouts == {{}, {"main"}, {"mobile"}, {"main", "mobile"}, {"main", "second"}}

\* The classes of a card as the page's markup has them, before any script
\* has run: the front face is the active one and no toggleState is set.
CardMarkup ==
  [activeFill |-> FALSE, rotate |-> FALSE, frontActive |-> TRUE,
   rotationActive |-> FALSE, visualActive |-> FALSE, shadowActive |-> FALSE,
   toggleState |-> <<>>, clickListener |-> FALSE]

RECURSIVE FirstOf(_, _)
FirstOf(among, i) ==
  IF i > Len(CardOrder) THEN NoCard
  ELSE IF CardOrder[i] \in among THEN CardOrder[i]
  ELSE FirstOf(among, i + 1)

\* document.querySelector / querySelectorAll on a card class
querySelector(class) == FirstOf(layout \cap class, 1)
querySelectorAll(class) == layout \cap class

\* window.getComputedStyle(element).display: the desktop cards show on the
\* desktop viewport, the mobile card on the mobile one.
isElementVisible(card) ==
  IF card \in MobileCards THEN viewport = "mobile" ELSE viewport = "desktop"

\* -- CardRotationManager -------------------------------------------------

findProfileCard(target) ==
  IF target # NoCard THEN target ELSE querySelector(WrapperCards)

getRotationState(cs, target) ==
  LET profileCard == findProfileCard(target)
  IN  IF profileCard = NoCard THEN "front"
      ELSE IF cs[profileCard].rotate THEN "back" ELSE "front"

\* The card whose .front-elements / .rotation-elements the manager changes:
\* the target card's, or the first in the document without a target.
FaceElementsCard(target) ==
  IF target # NoCard THEN target ELSE querySelector(CardIds)

rotateToBack(cs, target) ==
  LET profileCard == findProfileCard(target)
      faces == FaceElementsCard(target)
      turned == [cs EXCEPT ![profileCard].activeFill = TRUE,
                           ![profileCard].rotate = TRUE]
  IN  IF profileCard = NoCard THEN [cards |-> cs, success |-> FALSE]
      ELSE [cards |-> [turned EXCEPT ![faces].frontActive = FALSE,
                                     ![faces].rotationActive = TRUE],
            success |-> TRUE]

\* rotateToFront that removes the rotate class and leaves the faces
rotateToFrontOfCardOnly(cs, target) ==
  LET profileCard == findProfileCard(target)
  IN  IF profileCard = NoCard THEN [cards |-> cs, success |-> FALSE]
      ELSE [cards |-> [cs EXCEPT ![profileCard].rotate = FALSE], success |-> TRUE]

rotateToFront(cs, target) ==
  LET profileCard == findProfileCard(target)
      faces == FaceElementsCard(target)
      turned == [cs EXCEPT ![profileCard].rotate = FALSE]
  IN  IF profileCard = NoCard THEN [cards |-> cs, success |-> FALSE]
      ELSE [cards |-> [turned EXCEPT ![faces].frontActive = TRUE,
                                     ![faces].rotationActive = FALSE],
            success |-> TRUE]

\* toggleRotation that rotates to the back whatever the current state is
toggleRotationOneWay(cs, target) ==
  [cards |-> rotateToBack(cs, target).cards, state |-> "back"]

toggleRotation(cs, target) ==
  IF getRotationState(cs, target) = "front"
    THEN [cards |-> rotateToBack(cs, target).cards, state |-> "back"]
    ELSE [cards |-> rotateToFront(cs, target).cards, state |-> "front"]

\* -- LogoCardToggle ------------------------------------------------------

\* The detail of a card-rotation-toggle event
dispatchRotationEvent(newState) ==
  [state |-> newState, isRotated |-> (newState = "back")]

\* No toggle made yet; a toggle made is the one-element sequence of what it
\* returned, the event it dispatched and getRotationState() right after it.
NoToggle == <<>>

ToggleRecord(result, target) ==
  <<[returned |-> result.state,
     event |-> dispatchRotationEvent(result.state),
     actual |-> getRotationState(result.cards, target)]>>

\* -- TypebotEmailHandler -------------------------------------------------

\* A string is the sequence of its characters; null is NoText and a stored
\* string is the one-element sequence holding it.
NoText == <<>>
MaxValueLen == 2
MaxListeners == 2
ValueChars == {"a", "<", " "}
Values == UNION {[1..n -> ValueChars] : n \in 0..MaxValueLen}
Variables == {"email", "telefone"}

RemoveAngles(str) == SelectSeq(str, LAMBDA ch : ch \notin {"<", ">"})

RECURSIVE TrimStart(_)
TrimStart(str) ==
  IF str # <<>> /\ Head(str) = " " THEN TrimStart(Tail(str)) ELSE str

RECURSIVE TrimEnd(_)
TrimEnd(str) ==
  IF str # <<>> /\ str[Len(str)] = " "
    THEN TrimEnd(SubSeq(str, 1, Len(str) - 1)) ELSE str

Trim(str) == TrimEnd(TrimStart(str))

Substring(str, limit) == SubSeq(str, 1, Min(Len(str), limit))

sanitizeInput(input) == Substring(Trim(RemoveAngles(input)), 200)

findVisibleProfileCard ==
  LET desktopCard == querySelector(WrapperCards)
      mobileCard == querySelector(MobileCards)
  IN  IF desktopCard # NoCard /\ isElementVisible(desktopCard) THEN desktopCard
      ELSE IF mobileCard # NoCard /\ isElementVisible(mobileCard) THEN mobileCard
      ELSE IF desktopCard # NoCard THEN desktopCard
      ELSE mobileCard

\* The handlers below take and return the part of the page a message
\* listener works on: the handler object, the cards, and how many times the
\* rotation classes were applied.
updateUserEmail(st, email) ==
  IF sanitizeInput(email) = <<>> THEN st
  ELSE [st EXCEPT !.handler.userEmail = <<sanitizeInput(email)>>]

updateUserPhone(st, phone) ==
  IF sanitizeInput(phone) = <<>> THEN st
  ELSE [st EXCEPT !.handler.userPhone = <<sanitizeInput(phone)>>]

\* The class changes of triggerCardRotation without those of the front and
\* rotation elements
ApplyRotationClassesOfCardOnly(st, profileCard) ==
  [handler |-> [st.handler EXCEPT !.hasRotated = TRUE],
   cards |-> [st.cards EXCEPT ![profileCard].activeFill = TRUE,
                              ![profileCard].rotate = TRUE],
   applied |-> Min(st.applied + 1, 2)]

ApplyRotationClasses(st, profileCard) ==
  [handler |-> [st.handler EXCEPT !.hasRotated = TRUE],
   cards |-> [st.cards EXCEPT ![profileCard].activeFill = TRUE,
                              ![profileCard].rotate = TRUE,
                              ![profileCard].frontActive = FALSE,
                              ![profileCard].rotationActive = TRUE],
   applied |-> Min(st.applied + 1, 2)]

\* triggerCardRotation without the "only rotate once" return
triggerCardRotationEveryTime(st) ==
  IF findVisibleProfileCard = NoCard THEN st
  ELSE ApplyRotationClasses(st, findVisibleProfileCard)

triggerCardRotation(st) ==
  IF st.handler.hasRotated THEN st
  ELSE IF findVisibleProfileCard = NoCard THEN st
  ELSE ApplyRotationClasses(st, findVisibleProfileCard)

handleTypebotVariableUpdate(st, variable, value) ==
  IF value = <<>> THEN st
  ELSE IF variable = "email" THEN triggerCardRotation(updateUserEmail(st, value))
  ELSE IF variable \in {"telefone", "phone"} THEN updateUserPhone(st, value)
  ELSE st

\* window delivers a message to every listener that was added
RECURSIVE DeliverToEmailHandler(_, _, _, _)
DeliverToEmailHandler(st, listeners, variable, value) ==
  IF listeners = 0 THEN st
  ELSE DeliverToEmailHandler(handleTypebotVariableUpdate(st, variable, value),
                             listeners - 1, variable, value)

\* -- profile-card-toggle -------------------------------------------------

toggleAllCards(cs, isActive) ==
  [c \in CardIds |->
     IF c \in querySelectorAll(WrapperCards)
       THEN [cs[c] EXCEPT !.activeFill = isActive, !.visualActive = isActive,
                          !.shadowActive = isActive]
       ELSE cs[c]]

ToggleStateOrZero(card) == IF card.toggleState = <<>> THEN 0 ELSE card.toggleState[1]

\* handleCardClick that activates on every click
handleCardClickActivating(cs, target) ==
  toggleAllCards([cs EXCEPT ![target].toggleState = <<1>>], TRUE)

handleCardClick(cs, target) ==
  LET state == (ToggleStateOrZero(cs[target]) + 1) % 2
  IN  toggleAllCards([cs EXCEPT ![target].toggleState = <<state>>], state = 1)

initProfileCardToggle(cs) ==
  [c \in CardIds |->
     IF c \in querySelectorAll(WrapperCards)
       THEN [cs[c] EXCEPT !.toggleState = <<0>>, !.clickListener = TRUE]
       ELSE cs[c]]

destroyProfileCardToggle(cs) ==
  [c \in CardIds |->
     IF c \in querySelectorAll(WrapperCards)
       THEN [cs[c] EXCEPT !.toggleState = <<>>, !.clickListener = FALSE]
       ELSE cs[c]]

setProfileCardActive(cs, isActive) ==
  [c \in CardIds |->
     IF c \in querySelectorAll(WrapperCards)
       THEN [toggleAllCards(cs, isActive)[c] EXCEPT
               !.toggleState = <<IF isActive THEN 1 ELSE 0>>]
       ELSE cs[c]]

\* ------------------------------------------------------------------------
\* TypebotNameReplacer (typebot-name-replacer.ts)
\* ------------------------------------------------------------------------

\* The text of a [card-info="name"] element in the page's markup
NameMarkup == [text |-> <<"*", "*", "*", "*", "*", "*">>, nameUpdated |-> FALSE]

\* The [card-info="name"] elements the page holds
NameElementCount == 2

\* .replace(/[<>]/g, '').trim().substring(0, 100)
sanitizeName(name) == Substring(Trim(RemoveAngles(name)), 100)

\* asteriskPattern.test(text), asteriskPattern being /\*+/g with lastIndex 0
TestAsteriskPattern(text) == \E i \in 1..Len(text) : text[i] = "*"

\* What String.prototype.replace puts for one match of a pattern without
\* groups when the replacement is a string: $$ is $, $& the match, $` the
\* text before it, $' the text after it, any other character itself.
RECURSIVE GetSubstitution(_, _, _, _)
GetSubstitution(matched, before, after, replacement) ==
  IF \A i \in 1..Len(replacement) : replacement[i] # "$" THEN replacement
  ELSE IF Head(replacement) = "$" /\ Len(replacement) >= 2
              /\ replacement[2] \in {"$", "&", "`", "'"}
    THEN (CASE replacement[2] = "$" -> <<"$">>
            [] replacement[2] = "&" -> matched
            [] replacement[2] = "`" -> before
            [] replacement[2] = "'" -> after)
         \o GetSubstitution(matched, before, after,
                            SubSeq(replacement, 3, Len(replacement)))
    ELSE <<Head(replacement)>>
         \o GetSubstitution(matched, before, after, Tail(replacement))

\* The last index of the run of asterisks that starts at index from
RECURSIVE RunEnd(_, _)
RunEnd(text, from) ==
  IF from < Len(text) /\ text[from + 1] = "*" THEN RunEnd(text, from + 1) ELSE from

\* text.replace(/\*+/g, name) from index from on: every run of asterisks
\* becomes the substitution of name for it
RECURSIVE ReplaceAsteriskPattern(_, _, _)
ReplaceAsteriskPattern(text, name, from) ==
  IF from > Len(text) THEN <<>>
  ELSE IF text[from] = "*"
    THEN GetSubstitution(SubSeq(text, from, RunEnd(text, from)),
                         SubSeq(text, 1, from - 1),
                         SubSeq(text, RunEnd(text, from) + 1, Len(text)), name)
         \o ReplaceAsteriskPattern(text, name, RunEnd(text, from) + 1)
    ELSE <<text[from]>> \o ReplaceAsteriskPattern(text, name, from + 1)

replaceAsterisks(st) ==
  IF st.replacer.userName = NoText THEN st
  ELSE [st EXCEPT !.elements =
          [i \in 1..Len(st.elements) |->
             IF TestAsteriskPattern(st.elements[i].text)
               THEN [text |-> ReplaceAsteriskPattern(st.elements[i].text,
                                                     st.replacer.userName[1], 1),
                     nameUpdated |-> TRUE]
               ELSE st.elements[i]]]

activateProfileCard(st) ==
  IF querySelector(WrapperCards) = NoCard THEN st
  ELSE [st EXCEPT !.cards[querySelector(WrapperCards)].activeFill = TRUE]

\* updateUserName without the return on an empty sanitized name
updateUserNameOfAnyName(st, name) ==
  activateProfileCard(
    replaceAsterisks([st EXCEPT !.replacer.userName = <<sanitizeName(name)>>]))

updateUserName(st, name) ==
  IF sanitizeName(name) = <<>> THEN st
  ELSE activateProfileCard(
         replaceAsterisks([st EXCEPT !.replacer.userName = <<sanitizeName(name)>>]))

\* handleMessage on a typebot-variable-update message that carries no
\* variableId: isTypebotVariableUpdate, then handleTypebotVariableUpdate
NameReplacerHandleMessage(st, variable, value) ==
  IF variable = "nome" /\ value # <<>> THEN updateUserName(st, value) ELSE st

\* window delivers a message to every listener that was added
RECURSIVE DeliverToNameReplacer(_, _, _, _)
DeliverToNameReplacer(st, listeners, variable, value) ==
  IF listeners = 0 THEN st
  ELSE DeliverToNameReplacer(NameReplacerHandleMessage(st, variable, value),
                             listeners - 1, variable, value)

\* -- the data of a message event ------------------------------------------

\* event.data as the listeners read it: type is the 'type' property,
\* variable is <<>> when the data has no 'variable' property, value is the
\* 'value' property ('' when it has none) and nome is <<>> when the data
\* has no data.nome.
MessageTypes == {"typebot-variable-update", "typebot-completion", "typebot-ready"}

MessageVariables == {"nome", "email", "telefone", "phone", "idade"}

MessageData ==
  [type : MessageTypes,
   variable : {<<>>} \cup {<<variable>> : variable \in MessageVariables},
   value : {<<>>, <<"a">>},
   nome : {<<>>, <<(<<"a", "a">>)>>}]

\* TypebotNameReplacer
isTypebotCompletion(data) == data.type = "typebot-completion"

\* isTypebotVariableUpdate without the test of the variable
isTypebotVariableUpdateOfAnyVariable(data) ==
  data.type = "typebot-variable-update" /\ data.variable # <<>>

isTypebotVariableUpdate(data) ==
  data.type = "typebot-variable-update" /\ data.variable = <<"nome">>

NameReplacerHandleTypebotCompletion(st, message) ==
  IF message.nome # <<>> /\ message.nome[1] # <<>>
    THEN updateUserName(st, message.nome[1]) ELSE st

NameReplacerHandleData(st, data) ==
  LET completed == IF isTypebotCompletion(data)
                     THEN NameReplacerHandleTypebotCompletion(st, data) ELSE st
  IN  IF isTypebotVariableUpdate(data)
        THEN NameReplacerHandleMessage(completed, "nome", data.value)
        ELSE completed

RECURSIVE DeliverDataToNameReplacer(_, _, _)
DeliverDataToNameReplacer(st, listeners, data) ==
  IF listeners = 0 THEN st
  ELSE DeliverDataToNameReplacer(NameReplacerHandleData(st, data), listeners - 1, data)

\* TypebotEmailHandler
EmailHandlerIsTypebotVariableUpdate(data) ==
  data.type = "typebot-variable-update" /\ data.variable # <<>>

EmailHandlerHandleData(st, data) ==
  IF EmailHandlerIsTypebotVariableUpdate(data)
    THEN handleTypebotVariableUpdate(st, data.variable[1], data.value)
    ELSE st

RECURSIVE DeliverDataToEmailHandler(_, _, _)
DeliverDataToEmailHandler(st, listeners, data) ==
  IF listeners = 0 THEN st
  ELSE DeliverDataToEmailHandler(EmailHandlerHandleData(st, data), listeners - 1, data)

\* ------------------------------------------------------------------------
\* SVGIllustrationGenerator (svg-illustration-generator.ts) and
\* CardColorSwitcher (card-color-switcher.ts)
\* ------------------------------------------------------------------------

\* DEFAULT_CONFIG.brandColor
BrandColor == "#daa521"

\* The [card-info="ilustration"] elements the page holds
IllustrationCount == 2

\* The card with is-main="true"
MainCards == {"main"}

\* An illustration element before a shape was put into it
IllustrationMarkup == [path |-> <<>>, fill |-> <<>>, opacity |-> <<>>]

\* No shape generated yet
NoDrawing == <<>>

\* No shapeIndex argument; one given is the one-element sequence holding it.
NoShape == <<>>

\* this.shapeGenerators, with the bounds of the nextInt by which each
\* generator draws its number of points and, in thousandths, the bounds of
\* the nextFloat for its scale, its pointDistortion and its roundness
shapeGenerators ==
  <<[name |-> "Rounded Star", minPoints |-> 4, maxPoints |-> 12,
     scale |-> <<600, 1000>>, pointDistortion |-> <<0, 300>>, roundness |-> <<100, 400>>],
    [name |-> "Variant Star", minPoints |-> 5, maxPoints |-> 10,
     scale |-> <<650, 950>>, pointDistortion |-> <<100, 400>>, roundness |-> <<150, 350>>],
    [name |-> "Distorted Star", minPoints |-> 4, maxPoints |-> 8,
     scale |-> <<700, 1000>>, pointDistortion |-> <<200, 600>>, roundness |-> <<200, 500>>]>>

\* n calls of next() on the seed
RECURSIVE Drawn(_, _)
Drawn(seed, n) ==
  IF n = 0 THEN seed
  ELSE The({Drawn(left, n - 1) : left \in {LcgStep(seed)}})

\* A generator that draws up to twice its number of points
generateStarWide(index, seed) ==
  The({[path |-> <<[generator |-> shapeGenerators[index + 1].name, drawnFrom |-> seed,
                    points |-> points.value]>>,
        seed |-> Drawn(points.seed, 5 + 2 * points.value)] :
       points \in {SeededRandomNextInt(seed, shapeGenerators[index + 1].minPoints,
                                       2 * shapeGenerators[index + 1].maxPoints)}})

\* generateRoundedStar, generateVariantStar, generateDistortedStar: the
\* number of points by nextInt, five nextFloat for the radii and the
\* rotation, two nextFloat for every point.  The path data is computed from
\* the values drawn alone, so it is kept as the generator, the seed it
\* started to draw from and the number of points drawn.
generateStar(index, seed) ==
  The({[path |-> <<[generator |-> shapeGenerators[index + 1].name, drawnFrom |-> seed,
                    points |-> points.value]>>,
        seed |-> Drawn(points.seed, 5 + 2 * points.value)] :
       points \in {SeededRandomNextInt(seed, shapeGenerators[index + 1].minPoints,
                                       shapeGenerators[index + 1].maxPoints)}})

\* random.choice(shapeGenerators) unless a valid shapeIndex is given
selectAndGenerateShape(seed, shapeIndex) ==
  IF shapeIndex # NoShape /\ shapeIndex[1] >= 0 /\ shapeIndex[1] < Len(shapeGenerators)
    THEN generateStar(shapeIndex[1], seed)
    ELSE The({generateStar(choice.value, choice.seed) :
              choice \in {SeededRandomNextInt(seed, 0, Len(shapeGenerators) - 1)}})

\* DEFAULT_CONFIG.opacityRange, in tenths
opacityRange == [min |-> 3, max |-> 8]

\* One element of regenerate's forEach: the opacity by nextFloat, then the shape
RegenerateElement(seed, color, shapeIndex) ==
  The({The({[element |-> [path |-> shape.path, fill |-> <<color>>,
                          opacity |-> <<opacity.value>>],
             seed |-> shape.seed] :
            shape \in {selectAndGenerateShape(opacity.seed, shapeIndex)}}) :
       opacity \in {SeededRandomNextFloat(seed, opacityRange.min, opacityRange.max)}})

RECURSIVE RegenerateElements(_, _, _, _)
RegenerateElements(seed, count, color, shapeIndex) ==
  IF count = 0 THEN [elements |-> <<>>, seed |-> seed]
  ELSE The({The({[elements |-> <<first.element>> \o rest.elements, seed |-> rest.seed] :
                 rest \in {RegenerateElements(first.seed, count - 1, color, shapeIndex)}}) :
            first \in {RegenerateElement(seed, color, shapeIndex)}})

\* The seeds n successive calls of next() leave
RECURSIVE DrawnSeeds(_, _)
DrawnSeeds(seed, n) ==
  IF n = 0 THEN <<>>
  ELSE The({<<left>> \o DrawnSeeds(left, n - 1) : left \in {LcgStep(seed)}})

\* The 12 leading bits of the fraction next() returns with this seed
Fraction12(seed) == seed[2] \div 16

\* nextFloat(min, max) with the seed next() left, in thousandths, rounded
\* down; range is <<min, max>> in thousandths
NextFloatMilli(seed, range) ==
  range[1] + ((range[2] - range[1]) * Fraction12(seed)) \div 4096

\* nextFloat(-pointDistortion, pointDistortion) in thousandths, not above
\* the value drawn, from pointDistortion in thousandths rounded down
DistortionMilli(pointDistortion, seed) ==
  LET t == 2 * Fraction12(seed) - 4096
  IN IF t >= 0 THEN (pointDistortion * t) \div 4096
     ELSE 0 - (((pointDistortion + 1) * (0 - t)) \div 4096) - 1

\* The first control point of a tip lies controlDistance = distortedOuterRadius
\* * roundness from the tip, in a direction angleStep / 4 off the tip's own,
\* and the tip lies distortedOuterRadius = outerRadius * (1 + distortion)
\* from the centre, so the control point's squared distance from the centre
\* is distortedOuterRadius^2 * (1 + 2 * roundness * cos(angleStep / 4) +
\* roundness^2).  angleStep / 4 is at most pi / 8, whose cosine is above
\* 0.92.  The result is a lower bound of that squared distance in millionths
\* of (min(width, height) / 2)^2, every division rounding down.
ControlPointReach(scale, distortion, roundness) ==
  LET radius == (scale * (1000 + distortion)) \div 1000
  IN ((radius * radius) \div 1000)
       * ((1000000 + 1840 * roundness + roundness * roundness) \div 1000)

\* The loop of generateRoundedStar, generateVariantStar and
\* generateDistortedStar over the points drawn, on the seeds its draws leave:
\* draws[1] gave points, draws[2] scale, draws[5] pointDistortion, draws[6]
\* roundness, draws[5 + 2i] the distortion of tip i
StarTips(generator, draws) ==
  [i \in 1..(MulLimbs(generator.maxPoints - generator.minPoints + 1, 0, draws[1], 3)[3]
               + generator.minPoints) |->
     ControlPointReach(NextFloatMilli(draws[2], generator.scale),
                       DistortionMilli(NextFloatMilli(draws[5], generator.pointDistortion),
                                       draws[5 + 2 * i]),
                       NextFloatMilli(draws[6], generator.roundness))]

\* For the star a generator draws from the seed: how far the first control
\* point of every tip is from the centre of the viewBox
starControlReach(index, seed) ==
  The({StarTips(shapeGenerators[index + 1], draws) :
       draws \in {DrawnSeeds(seed, 6 + 2 * shapeGenerators[index + 1].maxPoints)}})

\* this.shapeGenerators.indexOf of the generator with the name
GeneratorIndex(name) ==
  CHOOSE index \in 0..(Len(shapeGenerators) - 1) : shapeGenerators[index + 1].name = name

\* COLOR_THEMES, by the visualBlockColor of each theme
COLOR_THEMES ==
  <<"#c9a84d", "#f5c93d", "#9a8a5e", "#d4c28f", "#f59d33", "#b37d1a", "#8c8c8c">>

\* The values of the "nome" variable tried, and the names the events carry
NameValues ==
  {<<>>, <<" ">>, <<"a">>, <<" ", "a">>, <<"<", "a", "o", ">">>}

PersonalNames == {sanitizeName(value) : value \in NameValues} \ {<<>>}

\* String.charCodeAt for the characters the names are written in
charCodeAt(ch) ==
  CASE ch = "a" -> 97 [] ch = "o" -> 111 [] ch = " " -> 32
    [] ch = "<" -> 60 [] ch = ">" -> 62 [] ch = "*" -> 42

CharCodes(str) == [i \in 1..Len(str) |-> charCodeAt(str[i])]

\* getCurrentThemeColor that never finds the attribute
getCurrentThemeColorUnset(pg) == <<>>

\* null when there is no main card or it has no data-theme-svg-color
getCurrentThemeColor(pg) ==
  IF querySelector(MainCards) = NoCard THEN <<>> ELSE pg.themeSvgColor

\* regenerate that takes Date.now() whatever seed it is given
regenerateUnseeded(pg, seed, shapeIndex) ==
  The({The({[page EXCEPT !.svg.random = drawn.seed, !.illustrations = drawn.elements] :
            drawn \in {RegenerateElements(SeededRandomInit(useSeed),
                                          Len(page.illustrations), color, shape)}}) :
       page \in {pg},
       useSeed \in {DateNow},
       color \in {IF getCurrentThemeColor(pg) # <<>> THEN getCurrentThemeColor(pg)[1]
                  ELSE BrandColor},
       shape \in {shapeIndex}})

\* regenerate(seed?, shapeIndex?)
regenerate(pg, seed, shapeIndex) ==
  The({The({[page EXCEPT !.svg.random = drawn.seed, !.illustrations = drawn.elements] :
            drawn \in {RegenerateElements(SeededRandomInit(useSeed),
                                          Len(page.illustrations), color, shape)}}) :
       page \in {pg},
       useSeed \in {IF seed # NoSeed THEN seed ELSE DateNow},
       color \in {IF getCurrentThemeColor(pg) # <<>> THEN getCurrentThemeColor(pg)[1]
                  ELSE BrandColor},
       shape \in {shapeIndex}})

\* init(): replaceIllustrationElements with createSVGElement for every element,
\* on the random object the constructor made from config.seed
SvgInit(pg) ==
  The({The({[page EXCEPT !.svg.random = drawn.seed, !.illustrations = drawn.elements] :
            drawn \in {RegenerateElements(page.svg.random, Len(page.illustrations),
                                          BrandColor, NoShape)}}) :
       page \in {pg}})

\* The card-rotation-toggle listener that forgets the personalization
SvgOnCardRotationToggleAfresh(pg) == regenerate(pg, NoSeed, NoShape)

\* The listeners initSVGIllustration adds to document
SvgOnUserNamePersonalization(pg, detail) ==
  regenerate([pg EXCEPT !.svg.lastPersonalization =
                <<[seed |-> detail.seed, shapeIndex |-> detail.shapeIndex]>>],
             detail.seed, <<detail.shapeIndex>>)

SvgOnCardRotationToggle(pg) ==
  IF pg.svg.lastPersonalization # <<>>
    THEN regenerate(pg, pg.svg.lastPersonalization[1].seed,
                    <<pg.svg.lastPersonalization[1].shapeIndex>>)
    ELSE regenerate(pg, NoSeed, NoShape)

\* Only the fill of the paths is set; an element without a path has none
updateSVGIllustrationColors(elements, color) ==
  [i \in 1..Len(elements) |->
     IF elements[i].path = <<>> THEN elements[i]
     ELSE [elements[i] EXCEPT !.fill = <<color>>]]

\* The number NaN, which is also what the comparisons of setTheme make of
\* undefined: no comparison holds for it, arithmetic on it gives it again and
\* COLOR_THEMES has no element at it. It is written as an integer that
\* lies outside every index tried.
NaN == 0 - 1000

\* applyTheme(COLOR_THEMES[index]): with a card and without a theme, the
\* read of theme.backgroundColor throws before anything is changed
applyTheme(pg, index) ==
  IF querySelector(MainCards) = NoCard THEN pg
  ELSE IF index = NaN THEN pg
  ELSE [pg EXCEPT !.illustrations = updateSVGIllustrationColors(@, COLOR_THEMES[index + 1]),
                  !.themeSvgColor = <<COLOR_THEMES[index + 1]>>]

\* cycleTheme that stays on the last theme
cycleThemeToLast(pg) ==
  applyTheme([pg EXCEPT !.switcher.currentThemeIndex = Min(@ + 1, Len(COLOR_THEMES) - 1)],
             Min(pg.switcher.currentThemeIndex + 1, Len(COLOR_THEMES) - 1))

cycleTheme(pg) ==
  IF pg.switcher.currentThemeIndex = NaN THEN applyTheme(pg, NaN)
  ELSE applyTheme([pg EXCEPT !.switcher.currentThemeIndex = (@ + 1) % Len(COLOR_THEMES)],
                  (pg.switcher.currentThemeIndex + 1) % Len(COLOR_THEMES))

setTheme(pg, index) ==
  IF index # NaN /\ (index < 0 \/ index >= Len(COLOR_THEMES)) THEN pg
  ELSE applyTheme([pg EXCEPT !.switcher.currentThemeIndex = index], index)

\* COLOR_THEMES.findIndex((theme) => theme.name === categoryName)
findIndex(categoryName) ==
  IF \E i \in 1..Len(ThemeNames) : ThemeNames[i] = categoryName
    THEN (CHOOSE i \in 1..Len(ThemeNames) : ThemeNames[i] = categoryName) - 1
    ELSE 0 - 1

setThemeByName(pg, categoryName) ==
  IF findIndex(categoryName) = 0 - 1 THEN pg
  ELSE setTheme(pg, findIndex(categoryName))

\* CardColorSwitcher.init: the visual block is part of the main card
SwitcherInit(pg) ==
  IF pg.switcher.isInitialized \/ querySelector(MainCards) = NoCard THEN pg
  ELSE [applyTheme(pg, pg.switcher.currentThemeIndex) EXCEPT
          !.switcher.isInitialized = TRUE]

\* The listener initCardColorSwitcher adds to document
SwitcherOnUserNamePersonalization(pg, detail) == setTheme(pg, detail.themeIndex)

\* document.dispatchEvent: the listeners run in the order index.ts added
\* them, initSVGIllustration's before initCardColorSwitcher's
DispatchUserNamePersonalization(pg, detail) ==
  The({IF drawn.switcher.listening THEN SwitcherOnUserNamePersonalization(drawn, detail)
       ELSE drawn :
       drawn \in {IF pg.svg.listening THEN SvgOnUserNamePersonalization(pg, detail)
                  ELSE pg}})

DispatchCardRotationToggle(pg) ==
  IF pg.svg.listening THEN SvgOnCardRotationToggle(pg) ELSE pg

Page ==
  [svg |-> svg, illustrations |-> illustrations, switcher |-> switcher,
   themeSvgColor |-> themeSvgColor]

\* The path data of the illustration elements
Paths(elements) == [i \in 1..Len(elements) |-> elements[i].path]

\* No personalization event handled yet; one handled is the one-element
\* sequence of the paths shown right after it, whether a card-rotation-toggle
\* event was dispatched since, whether the theme was changed since and the
\* number of clicks on the visual block since, counted modulo the themes.
NotPersonalized == <<>>

PersonalizedBy(pg) ==
  IF pg.svg.listening
    THEN <<[paths |-> Paths(pg.illustrations), toggled |-> FALSE, themed |-> FALSE,
            clicks |-> 0]>>
    ELSE personalized

Toggled == IF personalized = NotPersonalized THEN personalized
           ELSE <<[personalized[1] EXCEPT !.toggled = TRUE]>>

Themed == IF personalized = NotPersonalized THEN personalized
          ELSE <<[personalized[1] EXCEPT !.themed = TRUE,
                                         !.clicks = (@ + 1) % Len(COLOR_THEMES)]>>

\* -- initProfileCardTilt (profile-card-tilt.ts) ---------------------------

\* The closure of initProfileCardTilt: whether the card was found (so that
\* the class observer and the resize listener exist), isTiltActive, whether
\* the card element has the vanillaTilt property that VanillaTilt.init sets
\* and its destroy() deletes, whether the class observer has mutation
\* records its callback was not run for yet, and whether resizeTimeout is
\* pending.
NoTilt ==
  [started |-> FALSE, isTiltActive |-> FALSE, vanillaTilt |-> FALSE,
   records |-> FALSE, resizeTimeout |-> FALSE]

\* window.innerWidth >= settings.minWidth: the stylesheet's desktop layout
\* starts at the same width
isDesktop == viewport = "desktop"

isCardRotated(cs) == cs[querySelector(MainCards)].rotate

\* initTilt that does not look at the rotate class
initTiltWhileRotated(t, cs) ==
  IF t.isTiltActive THEN t
  ELSE IF ~isDesktop THEN t
  ELSE [t EXCEPT !.vanillaTilt = TRUE, !.isTiltActive = TRUE]

initTilt(t, cs) ==
  IF t.isTiltActive THEN t
  ELSE IF ~isDesktop THEN t
  ELSE IF isCardRotated(cs) THEN t
  ELSE [t EXCEPT !.vanillaTilt = TRUE, !.isTiltActive = TRUE]

destroyTilt(t) ==
  IF ~t.isTiltActive THEN t
  ELSE IF t.vanillaTilt THEN [t EXCEPT !.vanillaTilt = FALSE, !.isTiltActive = FALSE]
  ELSE t

initProfileCardTilt(cs) ==
  IF querySelector(MainCards) = NoCard THEN NoTilt
  ELSE initTilt([NoTilt EXCEPT !.started = TRUE], cs)

\* The callback of the MutationObserver, for the records of class changes
\* of the card: each record is handled by the classes the card has now
ObserverCallback(t, cs) ==
  IF isCardRotated(cs) /\ t.isTiltActive THEN destroyTilt(t)
  ELSE IF ~isCardRotated(cs) /\ ~t.isTiltActive /\ isDesktop THEN initTilt(t, cs)
  ELSE t

\* The observer queues a record when the class attribute of the card changes
ObserveClasses(t, before, after) ==
  IF /\ t.started
     /\ \/ before[querySelector(MainCards)].rotate # after[querySelector(MainCards)].rotate
        \/ before[querySelector(MainCards)].activeFill
             # after[querySelector(MainCards)].activeFill
    THEN [t EXCEPT !.records = TRUE]
    ELSE t

\* handleResize: the pending timeout is cleared and a new one is set
handleResize(t) == IF t.started THEN [t EXCEPT !.resizeTimeout = TRUE] ELSE t

\* The callback of the resize timeout
ResizeCallback(t, cs) ==
  IF t.vanillaTilt /\ ~isDesktop THEN destroyTilt(t)
  ELSE IF ~t.vanillaTilt /\ isDesktop THEN initTilt(t, cs)
  ELSE t

\* -- the operations of the card scripts -----------------------------------

\* Logo clicks counted per card since something other than a logo click last
\* changed the card's rotate class: whether the card had the class then, and
\* whether the number of clicks since is odd.
NoClicks == [c \in CardIds |-> [startedRotated |-> FALSE, odd |-> FALSE]]

ClicksAfter(cs) ==
  [c \in CardIds |->
     IF cs[c].rotate # cards[c].rotate
       THEN [startedRotated |-> cs[c].rotate, odd |-> FALSE]
       ELSE logoClicks[c]]

\* Card clicks counted per card since the profile-card-toggle functions last
\* set its toggleState: whether the state was 1 then, and whether the number
\* of clicks since is odd.
CardClicksFrom(cs) ==
  [c \in CardIds |-> [startedActive |-> ToggleStateOrZero(cs[c]) = 1, odd |-> FALSE]]

\* A postMessage of {type: 'typebot-variable-update', variable, value}
\* to the listeners of the name replacer and of the email handler, in the
\* order index.ts added them
TypebotVariableUpdate(variable, value) ==
  LET named == DeliverToNameReplacer(
                 [replacer |-> nameReplacer, elements |-> nameElements, cards |-> cards],
                 nameReplacer.listeners, variable, value)
      st == DeliverToEmailHandler(
              [handler |-> emailHandler, cards |-> named.cards, applied |-> emailRotations],
              emailHandler.listeners, variable, value)
  IN  /\ nameReplacer' = named.replacer
      /\ nameElements' = named.elements
      /\ emailHandler' = st.handler
      /\ cards' = st.cards
      /\ emailRotations' = st.applied
      /\ logoClicks' = ClicksAfter(st.cards)
      /\ UNCHANGED <<layout, viewport, targetCard, lastToggle, cardClicks>>
      /\ UNCHANGED exceptCardsAndReplacer
      /\ tilt' = ObserveClasses(tilt, cards, cards')

\* A postMessage of data to the window of a page whose Swiper controller
\* was not started: the listeners of the name replacer hear it, then those
\* of the email handler
PostMessage(data) ==
  LET named == DeliverDataToNameReplacer(
                 [replacer |-> nameReplacer, elements |-> nameElements, cards |-> cards],
                 nameReplacer.listeners, data)
      st == DeliverDataToEmailHandler(
              [handler |-> emailHandler, cards |-> named.cards, applied |-> emailRotations],
              emailHandler.listeners, data)
  IN  /\ controller.listeners = 0
      /\ nameReplacer' = named.replacer
      /\ nameElements' = named.elements
      /\ emailHandler' = st.handler
      /\ cards' = st.cards
      /\ emailRotations' = st.applied
      /\ logoClicks' = ClicksAfter(st.cards)
      /\ UNCHANGED <<layout, viewport, targetCard, lastToggle, cardClicks>>
      /\ UNCHANGED exceptCardsAndReplacer
      /\ tilt' = ObserveClasses(tilt, cards, cards')

\* TypebotNameReplacer.init
NameReplacerInit ==
  /\ ~nameReplacer.isListening
  /\ nameReplacer.listeners < MaxListeners
  /\ nameReplacer' = [nameReplacer EXCEPT !.isListening = TRUE, !.listeners = @ + 1]
  /\ UNCHANGED <<nameElements, cardVars>>
  /\ UNCHANGED exceptCardsAndReplacer
  /\ tilt' = ObserveClasses(tilt, cards, cards')

\* TypebotNameReplacer.destroy: as the email handler's, it removes a new
\* bound function and the added listener stays
NameReplacerDestroy ==
  /\ nameReplacer.isListening
  /\ nameReplacer' = [nameReplacer EXCEPT !.isListening = FALSE]
  /\ UNCHANGED <<nameElements, cardVars>>
  /\ UNCHANGED exceptCardsAndReplacer
  /\ tilt' = ObserveClasses(tilt, cards, cards')

\* TypebotNameReplacer.setUserName(name)
SetUserName(name) ==
  \E st \in {updateUserName([replacer |-> nameReplacer, elements |-> nameElements,
                             cards |-> cards], name)} :
    /\ nameReplacer' = st.replacer
    /\ nameElements' = st.elements
    /\ cards' = st.cards
    /\ UNCHANGED <<layout, viewport, emailHandler, targetCard, emailRotations,
                   logoClicks, lastToggle, cardClicks>>
    /\ UNCHANGED exceptCardsAndReplacer
    /\ tilt' = ObserveClasses(tilt, cards, cards')

\* TypebotEmailHandler.init
EmailHandlerInit ==
  /\ ~emailHandler.isListening
  /\ emailHandler.listeners < MaxListeners
  /\ emailHandler' = [emailHandler EXCEPT !.isListening = TRUE,
                                          !.listeners = @ + 1]
  /\ UNCHANGED <<layout, viewport, cards, targetCard, emailRotations,
                 logoClicks, lastToggle, cardClicks>>
  /\ UNCHANGED exceptCards
  /\ tilt' = ObserveClasses(tilt, cards, cards')

\* TypebotEmailHandler.destroy: the listener it removes is a new bound
\* function, not the one that was added, so the added one stays.
EmailHandlerDestroy ==
  /\ emailHandler.isListening
  /\ emailHandler' = [emailHandler EXCEPT !.isListening = FALSE]
  /\ UNCHANGED <<layout, viewport, cards, targetCard, emailRotations,
                 logoClicks, lastToggle, cardClicks>>
  /\ UNCHANGED exceptCards
  /\ tilt' = ObserveClasses(tilt, cards, cards')

\* TypebotEmailHandler.rotate
EmailHandlerRotate ==
  LET st == triggerCardRotation(
              [handler |-> [emailHandler EXCEPT !.hasRotated = FALSE],
               cards |-> cards, applied |-> 0])
  IN  /\ emailHandler' = st.handler
      /\ cards' = st.cards
      /\ emailRotations' = 0
      /\ logoClicks' = ClicksAfter(st.cards)
      /\ UNCHANGED <<layout, viewport, targetCard, lastToggle, cardClicks>>
      /\ UNCHANGED exceptCards
      /\ tilt' = ObserveClasses(tilt, cards, cards')

\* TypebotEmailHandler.reset
EmailHandlerReset ==
  /\ emailHandler' = [emailHandler EXCEPT !.userEmail = NoText,
                                          !.userPhone = NoText,
                                          !.hasRotated = FALSE]
  /\ emailRotations' = 0
  /\ UNCHANGED <<layout, viewport, cards, targetCard, logoClicks, lastToggle, cardClicks>>
  /\ UNCHANGED exceptCards
  /\ tilt' = ObserveClasses(tilt, cards, cards')

\* A click on a logo whose handler does not stop the propagation: the
\* click goes on to the card's own click listener
LogoClickBubbling(parentCard) ==
  LET toggled == toggleRotation(cards, parentCard)
      clicked == IF toggled.cards[parentCard].clickListener
                   THEN handleCardClick(toggled.cards, parentCard)
                   ELSE toggled.cards
  IN  /\ parentCard # NoCard
      /\ targetCard' = parentCard
      /\ cards' = clicked
      /\ lastToggle' = ToggleRecord(toggled, parentCard)
      /\ logoClicks' = [logoClicks EXCEPT ![parentCard].odd = ~@]
      /\ \E pg \in {DispatchCardRotationToggle(Page)} :
           svg' = pg.svg /\ illustrations' = pg.illustrations
      /\ personalized' = Toggled
      /\ UNCHANGED <<layout, viewport, emailHandler, emailRotations, cardClicks>>
      /\ UNCHANGED exceptCardsAndStars
      /\ tilt' = ObserveClasses(tilt, cards, cards')

\* A click on a .logo_card element inside the card parentCard, or outside
\* every card (NoCard): handleLogoClick stops the propagation, so no click
\* listener of the card runs
LogoClick(parentCard) ==
  LET toggled == toggleRotation(cards, parentCard)
  IN  /\ parentCard # NoCard
      /\ targetCard' = parentCard
      /\ cards' = toggled.cards
      /\ lastToggle' = ToggleRecord(toggled, parentCard)
      /\ logoClicks' = [logoClicks EXCEPT ![parentCard].odd = ~@]
      /\ \E pg \in {DispatchCardRotationToggle(Page)} :
           svg' = pg.svg /\ illustrations' = pg.illustrations
      /\ personalized' = Toggled
      /\ UNCHANGED <<layout, viewport, emailHandler, emailRotations, cardClicks>>
      /\ UNCHANGED exceptCardsAndStars
      /\ tilt' = ObserveClasses(tilt, cards, cards')

\* LogoCardToggle.toggle(targetCard?)
LogoToggle(given) ==
  LET target == IF given # NoCard THEN given ELSE targetCard
      toggled == toggleRotation(cards, target)
  IN  /\ targetCard' = target
      /\ cards' = toggled.cards
      /\ lastToggle' = ToggleRecord(toggled, target)
      /\ logoClicks' = ClicksAfter(toggled.cards)
      /\ \E pg \in {DispatchCardRotationToggle(Page)} :
           svg' = pg.svg /\ illustrations' = pg.illustrations
      /\ personalized' = Toggled
      /\ UNCHANGED <<layout, viewport, emailHandler, emailRotations, cardClicks>>
      /\ UNCHANGED exceptCardsAndStars
      /\ tilt' = ObserveClasses(tilt, cards, cards')

\* LogoCardToggle.rotateToBack(targetCard?) and rotateToFront(targetCard?)
LogoRotateTo(face, given) ==
  LET target == IF given # NoCard THEN given ELSE targetCard
      turned == IF face = "back" THEN rotateToBack(cards, target)
                ELSE rotateToFront(cards, target)
  IN  /\ targetCard' = target
      /\ cards' = turned.cards
      /\ logoClicks' = ClicksAfter(turned.cards)
      /\ \E pg \in {IF turned.success THEN DispatchCardRotationToggle(Page) ELSE Page} :
           svg' = pg.svg /\ illustrations' = pg.illustrations
      /\ personalized' = IF turned.success THEN Toggled ELSE personalized
      /\ UNCHANGED <<layout, viewport, emailHandler, emailRotations, lastToggle, cardClicks>>
      /\ UNCHANGED exceptCardsAndStars
      /\ tilt' = ObserveClasses(tilt, cards, cards')

\* A click on a profile card that has the click listener
CardClick(target) ==
  /\ cards[target].clickListener
  /\ cards' = handleCardClick(cards, target)
  /\ cardClicks' = [cardClicks EXCEPT ![target].odd = ~@]
  /\ UNCHANGED <<layout, viewport, emailHandler, targetCard, emailRotations,
                 logoClicks, lastToggle>>
  /\ UNCHANGED exceptCards
  /\ tilt' = ObserveClasses(tilt, cards, cards')

ProfileCardToggleInit ==
  /\ cards' = initProfileCardToggle(cards)
  /\ cardClicks' = CardClicksFrom(initProfileCardToggle(cards))
  /\ UNCHANGED <<layout, viewport, emailHandler, targetCard, emailRotations,
                 logoClicks, lastToggle>>
  /\ UNCHANGED exceptCards
  /\ tilt' = ObserveClasses(tilt, cards, cards')

ProfileCardToggleDestroy ==
  /\ cards' = destroyProfileCardToggle(cards)
  /\ cardClicks' = CardClicksFrom(destroyProfileCardToggle(cards))
  /\ UNCHANGED <<layout, viewport, emailHandler, targetCard, emailRotations,
                 logoClicks, lastToggle>>
  /\ UNCHANGED exceptCards
  /\ tilt' = ObserveClasses(tilt, cards, cards')

SetProfileCardActive(isActive) ==
  /\ cards' = setProfileCardActive(cards, isActive)
  /\ cardClicks' = CardClicksFrom(setProfileCardActive(cards, isActive))
  /\ UNCHANGED <<layout, viewport, emailHandler, targetCard, emailRotations,
                 logoClicks, lastToggle>>
  /\ UNCHANGED exceptCards
  /\ tilt' = ObserveClasses(tilt, cards, cards')

\* The window is resized across the breakpoint between the two viewports
Resize ==
  /\ viewport' = IF viewport = "desktop" THEN "mobile" ELSE "desktop"
  /\ UNCHANGED <<layout, cards, emailHandler, targetCard, emailRotations,
                 logoClicks, lastToggle, cardClicks>>
  /\ UNCHANGED exceptCards
  /\ tilt' = handleResize(tilt)

\* The MutationObserver's callback runs for the records queued
TiltObserverRuns ==
  /\ tilt.records
  /\ tilt' = [ObserverCallback(tilt, cards) EXCEPT !.records = FALSE]
  /\ UNCHANGED <<layout, viewport, cards, emailHandler, targetCard, emailRotations,
                 logoClicks, lastToggle, cardClicks>>
  /\ UNCHANGED exceptCards

\* 250 ms have passed since the last resize event: the timeout's callback runs
TiltResizeTimeout ==
  /\ tilt.resizeTimeout
  /\ tilt' = [ResizeCallback(tilt, cards) EXCEPT !.resizeTimeout = FALSE]
  /\ UNCHANGED <<layout, viewport, cards, emailHandler, targetCard, emailRotations,
                 logoClicks, lastToggle, cardClicks>>
  /\ UNCHANGED exceptCards

\* A user-name-personalization event dispatched on document with the
\* personalization of a name as its detail
UserNamePersonalization(name) ==
  \E detail \in {getPersonalizationFromName(CharCodes(name))} :
    \E pg \in {DispatchUserNamePersonalization(Page, detail)} :
      /\ lastEvent' = <<detail>>
      /\ svg' = pg.svg
      /\ illustrations' = pg.illustrations
      /\ switcher' = pg.switcher
      /\ themeSvgColor' = pg.themeSvgColor
      /\ personalized' = PersonalizedBy(pg)
      /\ UNCHANGED exceptStarsAndThemes

\* A user-name-personalization event whose detail carries themeIndex as
\* its theme index
PersonalizationEvent(themeIndex) ==
  \E detail \in {[getPersonalizationFromName(CharCodes(<<"a">>)) EXCEPT
                    !.themeIndex = themeIndex]} :
    \E pg \in {DispatchUserNamePersonalization(Page, detail)} :
      /\ switcher.listening
      /\ lastEvent' = <<detail>>
      /\ svg' = pg.svg
      /\ illustrations' = pg.illustrations
      /\ switcher' = pg.switcher
      /\ themeSvgColor' = pg.themeSvgColor
      /\ personalized' = PersonalizedBy(pg)
      /\ UNCHANGED exceptStarsAndThemes

\* initCardColorSwitcher on the switcher constructed: init(), then the
\* listener of the personalization event is added
InitCardColorSwitcher ==
  \E pg \in {[SwitcherInit(Page) EXCEPT !.switcher.listening = TRUE]} :
      /\ ~switcher.listening
      /\ switcher' = pg.switcher
      /\ illustrations' = pg.illustrations
      /\ themeSvgColor' = pg.themeSvgColor
      /\ UNCHANGED <<svg, lastEvent, personalized>>
      /\ UNCHANGED exceptStarsAndThemes

\* CardColorSwitcher.setTheme(index)
SetTheme(index) ==
  \E pg \in {setTheme(Page, index)} :
      /\ switcher' = pg.switcher
      /\ illustrations' = pg.illustrations
      /\ themeSvgColor' = pg.themeSvgColor
      /\ personalized' = Themed
      /\ UNCHANGED <<svg, lastEvent>>
      /\ UNCHANGED exceptStarsAndThemes

\* CardColorSwitcher.setThemeByName(categoryName)
SetThemeByName(categoryName) ==
  \E pg \in {setThemeByName(Page, categoryName)} :
      /\ switcher' = pg.switcher
      /\ illustrations' = pg.illustrations
      /\ themeSvgColor' = pg.themeSvgColor
      /\ personalized' = Themed
      /\ UNCHANGED <<svg, lastEvent>>
      /\ UNCHANGED exceptStarsAndThemes

\* A click on the visual block of the main card: handleVisualBlockClick
VisualBlockClick ==
  \E pg \in {cycleTheme(Page)} :
      /\ switcher.isInitialized
      /\ switcher' = pg.switcher
      /\ illustrations' = pg.illustrations
      /\ themeSvgColor' = pg.themeSvgColor
      /\ personalized' = Themed
      /\ UNCHANGED <<svg, lastEvent>>
      /\ UNCHANGED exceptStarsAndThemes

\* ------------------------------------------------------------------------
\* SwiperController (swiper-controller.ts)
\* ------------------------------------------------------------------------

\* DEFAULT_CONFIG.speed, DEFAULT_CONFIG.transitionDelay and the margin added
\* to speed before the slide directions are disabled again, in milliseconds.
\* All delays are multiples of ResetMargin, the step in which time advances.
Speed == 600
TransitionDelay == 500
ResetMargin == 100
MaxTimers == 2
LastSlide == 1

\* The Swiper instance: this.swiper = null is exists = FALSE
NoSwiper ==
  [exists |-> FALSE, allowSlideNext |-> FALSE, allowSlidePrev |-> FALSE,
   activeIndex |-> 0]

\* new Swiper(container, {allowSlideNext: false, allowSlidePrev: false, ...})
NewSwiper == [NoSwiper EXCEPT !.exists = TRUE]

\* Swiper.slideTo / slideNext / slidePrev: a move in a direction that is not
\* allowed is refused, and the index stays within the slides.
slideTo(sw, index) ==
  IF index > sw.activeIndex /\ ~sw.allowSlideNext THEN sw
  ELSE IF index < sw.activeIndex /\ ~sw.allowSlidePrev THEN sw
  ELSE [sw EXCEPT !.activeIndex = index]

slideNext(sw) == slideTo(sw, Min(sw.activeIndex + 1, LastSlide))

slidePrev(sw) == slideTo(sw, IF sw.activeIndex = 0 THEN 0 ELSE sw.activeIndex - 1)

\* setTimeout(callback, delay): the pending callbacks, oldest first
setTimeout(pending, callback, delay) ==
  Append(pending, [callback |-> callback, remaining |-> delay])

\* The functions below take and return the controller's world: the Swiper
\* instance, the controller's fields and the pending timeouts.
\* initSwiper without the return when the container is not found
initSwiperWithoutContainer(st) == [st EXCEPT !.swiper = NewSwiper]

initSwiper(st) ==
  IF ~container THEN st ELSE [st EXCEPT !.swiper = NewSwiper]

\* handleTypebotCompletion that starts no timeout
handleTypebotCompletionNoDelay(st) == st

handleTypebotCompletion(st) ==
  IF st.controller.hasTransitioned THEN st
  ELSE [st EXCEPT !.timers = setTimeout(@, "transitionToSlide", TransitionDelay)]

\* transitionToSlide that leaves the directions enabled
transitionToSlideLeftOpen(st, index) ==
  IF ~st.swiper.exists THEN st
  ELSE [st EXCEPT
          !.swiper = slideTo([@ EXCEPT !.allowSlideNext = TRUE,
                                       !.allowSlidePrev = TRUE], index),
          !.controller.hasTransitioned = TRUE]

transitionToSlide(st, index) ==
  IF ~st.swiper.exists THEN st
  ELSE [st EXCEPT
          !.swiper = slideTo([@ EXCEPT !.allowSlideNext = TRUE,
                                       !.allowSlidePrev = TRUE], index),
          !.timers = setTimeout(@, "disableBoth", Speed + ResetMargin),
          !.controller.hasTransitioned = TRUE]

next(st) ==
  IF ~st.swiper.exists THEN st
  ELSE [st EXCEPT
          !.swiper = slideNext([@ EXCEPT !.allowSlideNext = TRUE]),
          !.timers = setTimeout(@, "disableNext", Speed + ResetMargin)]

prev(st) ==
  IF ~st.swiper.exists THEN st
  ELSE [st EXCEPT
          !.swiper = slidePrev([@ EXCEPT !.allowSlidePrev = TRUE]),
          !.timers = setTimeout(@, "disablePrev", Speed + ResetMargin)]

goToSlide2(st) ==
  transitionToSlide([st EXCEPT !.controller.hasTransitioned = FALSE], 1)

reset(st) ==
  IF ~st.swiper.exists THEN [st EXCEPT !.controller.hasTransitioned = FALSE]
  ELSE [st EXCEPT
          !.controller.hasTransitioned = FALSE,
          !.swiper = slideTo([@ EXCEPT !.allowSlideNext = TRUE,
                                       !.allowSlidePrev = TRUE], 0),
          !.timers = setTimeout(@, "disableBoth", Speed + ResetMargin)]

\* init: the listener is added even when no container was found
init(st) ==
  IF st.swiper.exists THEN st
  ELSE [initSwiper(st) EXCEPT !.controller.isListening = TRUE,
                               !.controller.listeners = @ + 1]

\* destroy: the message listener it removes is a new bound function, so
\* the one init added stays
destroy(st) ==
  [st EXCEPT !.swiper = NoSwiper, !.controller.isListening = FALSE]

\* The callback of a timeout that has come due
RunCallback(st, callback) ==
  IF callback = "transitionToSlide" THEN transitionToSlide(st, 1)
  ELSE IF ~st.swiper.exists THEN st
  ELSE IF callback = "disableBoth"
    THEN [st EXCEPT !.swiper.allowSlideNext = FALSE, !.swiper.allowSlidePrev = FALSE]
  ELSE IF callback = "disableNext"
    THEN [st EXCEPT !.swiper.allowSlideNext = FALSE]
  ELSE [st EXCEPT !.swiper.allowSlidePrev = FALSE]

RECURSIVE DeliverCompletion(_, _)
DeliverCompletion(st, listeners) ==
  IF listeners = 0 THEN st
  ELSE DeliverCompletion(handleTypebotCompletion(st), listeners - 1)

RECURSIVE FirstDue(_, _)
FirstDue(pending, i) ==
  IF i > Len(pending) THEN 0
  ELSE IF pending[i].remaining = 0 THEN i
  ELSE FirstDue(pending, i + 1)

RemoveAt(seq, i) == SubSeq(seq, 1, i - 1) \o SubSeq(seq, i + 1, Len(seq))

\* -- the operations of the controller ---------------------------------------

World == [swiper |-> swiper, controller |-> controller, timers |-> timers]

Becomes(st) ==
  /\ swiper' = st.swiper
  /\ controller' = st.controller
  /\ timers' = st.timers

\* A postMessage of {type: 'typebot-completion'}, heard by every listener
\* that was added.  completion follows the message through: "waiting" from a
\* message that started the delay, then "transitioned" or "skipped" when
\* the delayed call of transitionToSlide did or did not find a Swiper.
TypebotCompletion ==
  /\ controller.listeners > 0
  /\ Len(timers) + controller.listeners <= MaxTimers
  /\ Becomes(DeliverCompletion(World, controller.listeners))
  /\ completion' = IF controller.hasTransitioned THEN completion ELSE "waiting"
  /\ UNCHANGED container
  /\ UNCHANGED exceptSwiper

\* A timeout has come due: its callback runs
TimeoutFires ==
  LET due == FirstDue(timers, 1)
      after == RunCallback([World EXCEPT !.timers = RemoveAt(timers, due)],
                           timers[due].callback)
  IN  /\ due # 0
      /\ Becomes(after)
      /\ completion' =
           IF timers[due].callback = "transitionToSlide" /\ completion = "waiting"
             THEN (IF after.swiper.exists /\ after.swiper.activeIndex = 1
                      /\ after.controller.hasTransitioned
                     THEN "transitioned" ELSE "skipped")
             ELSE completion
      /\ UNCHANGED container
      /\ UNCHANGED exceptSwiper

\* ResetMargin milliseconds pass with no timeout due
TimePasses ==
  /\ timers # <<>>
  /\ FirstDue(timers, 1) = 0
  /\ timers' = [i \in 1..Len(timers) |->
                  [timers[i] EXCEPT !.remaining = @ - ResetMargin]]
  /\ UNCHANGED <<container, swiper, controller, completion>>
  /\ UNCHANGED exceptSwiper

SwiperInit ==
  /\ ~swiper.exists
  /\ controller.listeners < MaxListeners
  /\ Becomes(init(World))
  /\ UNCHANGED <<container, completion>>
  /\ UNCHANGED exceptSwiper

SwiperDestroy ==
  /\ controller.isListening
  /\ Becomes(destroy(World))
  /\ UNCHANGED <<container, completion>>
  /\ UNCHANGED exceptSwiper

SwiperNext ==
  /\ swiper.exists
  /\ Len(timers) < MaxTimers
  /\ Becomes(next(World))
  /\ UNCHANGED <<container, completion>>
  /\ UNCHANGED exceptSwiper

SwiperPrev ==
  /\ swiper.exists
  /\ Len(timers) < MaxTimers
  /\ Becomes(prev(World))
  /\ UNCHANGED <<container, completion>>
  /\ UNCHANGED exceptSwiper

SwiperGoToSlide2 ==
  /\ swiper.exists
  /\ Len(timers) < MaxTimers
  /\ Becomes(goToSlide2(World))
  /\ UNCHANGED <<container, completion>>
  /\ UNCHANGED exceptSwiper

SwiperReset ==
  /\ Len(timers) < MaxTimers
  /\ Becomes(reset(World))
  /\ UNCHANGED <<container, completion>>
  /\ UNCHANGED exceptSwiper

\* ------------------------------------------------------------------------
\* Specifications
\* ------------------------------------------------------------------------

NameIdle == firstCall = NoResult /\ secondCall = NoResult

\* initProfileCardTilt was not called
TiltIdle == tilt = NoTilt

RandomIdle ==
  /\ gen = [g \in GenIds |-> [made |-> FALSE, arg |-> NoSeed,
                               seed |-> <<0, 0, 0>>, outs |-> <<>>]]
  /\ clock = 0
  /\ drawing = NoDrawing

NewEmailHandler ==
  [userEmail |-> NoText, userPhone |-> NoText, hasRotated |-> FALSE,
   isListening |-> FALSE, listeners |-> 0]

\* A page without cards on which no card script was started
CardsIdle ==
  /\ layout = {}
  /\ viewport = "desktop"
  /\ cards = [c \in CardIds |-> CardMarkup]
  /\ emailHandler = NewEmailHandler
  /\ targetCard = NoCard
  /\ emailRotations = 0
  /\ logoClicks = NoClicks
  /\ lastToggle = NoToggle
  /\ cardClicks = CardClicksFrom(cards)

NewController == [hasTransitioned |-> FALSE, isListening |-> FALSE, listeners |-> 0]

\* A page without the Swiper container on which no controller was started
SwiperIdle ==
  /\ container = FALSE
  /\ swiper = NoSwiper
  /\ controller = NewController
  /\ timers = <<>>
  /\ completion = "none"

NewNameReplacer == [userName |-> NoText, isListening |-> FALSE, listeners |-> 0]

\* new SVGIllustrationGenerator(): DEFAULT_CONFIG.seed is Date.now()
NewSvg == [random |-> SeededRandomInit(DateNow), listening |-> FALSE,
           lastPersonalization |-> <<>>]

\* new CardColorSwitcher() with Math.random() giving the theme index
NewSwitcher(index) ==
  [currentThemeIndex |-> index, isInitialized |-> FALSE, listening |-> FALSE]

NewPage(index) ==
  [svg |-> NewSvg,
   illustrations |-> [i \in 1..IllustrationCount |-> IllustrationMarkup],
   switcher |-> NewSwitcher(index),
   themeSvgColor |-> <<>>]

\* The page's markup, with none of the personalization scripts started
PersonalIdle ==
  /\ nameReplacer = NewNameReplacer
  /\ nameElements = [i \in 1..NameElementCount |-> NameMarkup]
  /\ svg = NewPage(0).svg
  /\ illustrations = NewPage(0).illustrations
  /\ switcher = NewPage(0).switcher
  /\ themeSvgColor = NewPage(0).themeSvgColor
  /\ lastEvent = <<>>
  /\ personalized = NotPersonalized

\* SeededRandom objects on their own
InitRandom == RandomIdle /\ TiltIdle /\ NameIdle /\ CardsIdle /\ SwiperIdle /\ PersonalIdle

NextRandom ==
  \/ \E g \in GenIds, seed \in SeedArgs : NewGenerator(g, seed)
  \/ \E g \in GenIds : GenNext(g)
  \/ ClockTick

SpecRandom == InitRandom /\ [][NextRandom]_vars

\* Calls of getPersonalizationFromName on their own
InitName == RandomIdle /\ TiltIdle /\ NameIdle /\ CardsIdle /\ SwiperIdle /\ PersonalIdle

NextName ==
  \/ \E name \in Names : CallFirst(name)
  \/ CallSecond
  \/ CallsForgotten

SpecName == InitName /\ [][NextName]_vars

\* The card scripts as index.ts starts them (initProfileCardToggle,
\* initTypebotEmailHandler, initLogoCardToggle), on any of the page layouts
InitCards ==
  /\ RandomIdle /\ TiltIdle /\ NameIdle /\ SwiperIdle /\ PersonalIdle
  /\ layout \in Layouts
  /\ viewport \in {"desktop", "mobile"}
  /\ cards = initProfileCardToggle([c \in CardIds |-> CardMarkup])
  /\ emailHandler = [NewEmailHandler EXCEPT !.isListening = TRUE, !.listeners = 1]
  /\ targetCard = NoCard
  /\ emailRotations = 0
  /\ logoClicks = NoClicks
  /\ lastToggle = NoToggle
  /\ cardClicks = CardClicksFrom(cards)

NextCards ==
  \/ \E variable \in Variables, value \in Values : TypebotVariableUpdate(variable, value)
  \/ EmailHandlerInit
  \/ EmailHandlerDestroy
  \/ EmailHandlerRotate
  \/ EmailHandlerReset
  \/ \E parentCard \in layout : LogoClick(parentCard)
  \/ \E given \in layout \cup {NoCard} : LogoToggle(given)
  \/ \E face \in {"back", "front"}, given \in layout \cup {NoCard} : LogoRotateTo(face, given)
  \/ Resize

SpecCards == InitCards /\ [][NextCards]_vars

\* The same pages under clicks on the cards and on their logos, the
\* profile-card-toggle functions and the Typebot messages
NextClicks ==
  \/ \E target \in layout : CardClick(target)
  \/ ProfileCardToggleInit
  \/ ProfileCardToggleDestroy
  \/ \E isActive \in BOOLEAN : SetProfileCardActive(isActive)
  \/ \E parentCard \in layout : LogoClick(parentCard)
  \/ \E variable \in Variables, value \in Values : TypebotVariableUpdate(variable, value)
  \/ Resize

SpecClicks == InitCards /\ [][NextClicks]_vars

\* The controller as initSwiperController starts it, on a page with or
\* without the .swiper.is-landingpage container
InitSwiper ==
  /\ RandomIdle /\ TiltIdle /\ NameIdle /\ CardsIdle /\ PersonalIdle
  /\ container \in BOOLEAN
  /\ swiper = init([swiper |-> NoSwiper, controller |-> NewController,
                    timers |-> <<>>]).swiper
  /\ controller = [NewController EXCEPT !.isListening = TRUE, !.listeners = 1]
  /\ timers = <<>>
  /\ completion = "none"

NextSwiper ==
  \/ TypebotCompletion
  \/ TimeoutFires
  \/ TimePasses
  \/ SwiperInit
  \/ SwiperDestroy
  \/ SwiperNext
  \/ SwiperPrev
  \/ SwiperGoToSlide2
  \/ SwiperReset

SpecSwiper == InitSwiper /\ [][NextSwiper]_vars

\* The same controller under completion messages and the passing of time
\* alone: no reset(), goToSlide2(), next(), prev(), init() or destroy()
NextCompletions ==
  \/ TypebotCompletion
  \/ TimeoutFires
  \/ TimePasses

SpecCompletions == InitSwiper /\ [][NextCompletions]_vars

\* The name replacer, the illustrations, the colour switcher and the logo
\* toggle as index.ts starts them (initTypebotNameReplacer,
\* initLogoCardToggle, initSVGIllustration, initCardColorSwitcher), on a page
\* with the main card or with the mobile card alone
Started(index) ==
  The({[SwitcherInit(drawn) EXCEPT !.switcher.listening = TRUE] :
       drawn \in {[SvgInit(NewPage(index)) EXCEPT !.svg.listening = TRUE]}})

InitPersonal ==
  /\ RandomIdle /\ TiltIdle /\ NameIdle /\ SwiperIdle
  /\ layout \in {{"main"}, {"mobile"}}
  /\ viewport = "desktop"
  /\ cards = [c \in CardIds |-> CardMarkup]
  /\ emailHandler = NewEmailHandler
  /\ targetCard = NoCard
  /\ emailRotations = 0
  /\ logoClicks = NoClicks
  /\ lastToggle = NoToggle
  /\ cardClicks = CardClicksFrom(cards)
  /\ nameReplacer = [NewNameReplacer EXCEPT !.isListening = TRUE, !.listeners = 1]
  /\ nameElements = [i \in 1..NameElementCount |-> NameMarkup]
  /\ \E index \in 0..(Len(COLOR_THEMES) - 1) :
       \E pg \in {Started(index)} :
         /\ svg = pg.svg
         /\ illustrations = pg.illustrations
         /\ switcher = pg.switcher
         /\ themeSvgColor = pg.themeSvgColor
  /\ lastEvent = <<>>
  /\ personalized = NotPersonalized

NextPersonal ==
  \/ \E value \in NameValues : TypebotVariableUpdate("nome", value)
  \/ \E name \in PersonalNames : UserNamePersonalization(name)
  \/ \E parentCard \in layout : LogoClick(parentCard)
  \/ VisualBlockClick
  \/ ClockTick

SpecPersonal == InitPersonal /\ [][NextPersonal]_vars

\* The names given to the name replacer: every string of at most
\* MaxReplacerLen of ReplacerChars, and one of 101 characters whose 100th
\* is a space
MaxReplacerLen == 2

ReplacerChars == {"a", " ", "<", "$", "&"}

LongName == [i \in 1..101 |-> IF i = 100 THEN " " ELSE "a"]

ReplacerValues ==
  UNION {[1..n -> ReplacerChars] : n \in 0..MaxReplacerLen} \cup {LongName}

\* A TypebotNameReplacer that was constructed and not started yet, under
\* init(), destroy(), setUserName() and the "nome" messages of Typebot
InitReplacer == RandomIdle /\ TiltIdle /\ NameIdle /\ CardsIdle /\ SwiperIdle /\ PersonalIdle

NextReplacer ==
  \/ NameReplacerInit
  \/ NameReplacerDestroy
  \/ \E value \in ReplacerValues : TypebotVariableUpdate("nome", value)
  \/ \E name \in ReplacerValues : SetUserName(name)

SpecReplacer == InitReplacer /\ [][NextReplacer]_vars

\* initSVGIllustration: init() of a new generator, then the two document
\* listeners are added
InitSVGIllustration ==
  \E pg \in {[SvgInit([Page EXCEPT !.svg = NewSvg]) EXCEPT !.svg.listening = TRUE]} :
      /\ ~svg.listening
      /\ svg' = pg.svg
      /\ illustrations' = pg.illustrations
      /\ UNCHANGED <<switcher, themeSvgColor, lastEvent, personalized>>
      /\ UNCHANGED exceptStarsAndThemes

\* Pages that hold or lack the profile card, the Swiper container and the
\* illustration elements, with nothing started: initSVGIllustration,
\* SwiperController.init, the rotations of the logo toggle, the completion
\* message and the passing of time
InitMissing ==
  /\ RandomIdle /\ TiltIdle /\ NameIdle
  /\ layout \in {{}, {"main"}}
  /\ viewport = "desktop"
  /\ cards = [c \in CardIds |-> CardMarkup]
  /\ emailHandler = NewEmailHandler
  /\ targetCard = NoCard
  /\ emailRotations = 0
  /\ logoClicks = NoClicks
  /\ lastToggle = NoToggle
  /\ cardClicks = CardClicksFrom(cards)
  /\ container \in BOOLEAN
  /\ swiper = NoSwiper
  /\ controller = NewController
  /\ timers = <<>>
  /\ completion = "none"
  /\ nameReplacer = NewNameReplacer
  /\ nameElements = [i \in 1..NameElementCount |-> NameMarkup]
  /\ svg = NewSvg
  /\ illustrations \in {<<>>, NewPage(0).illustrations}
  /\ switcher = NewPage(0).switcher
  /\ themeSvgColor = NewPage(0).themeSvgColor
  /\ lastEvent = <<>>
  /\ personalized = NotPersonalized

NextMissing ==
  \/ InitSVGIllustration
  \/ SwiperInit
  \/ \E face \in {"back", "front"} : LogoRotateTo(face, NoCard)
  \/ TypebotCompletion
  \/ TimeoutFires
  \/ TimePasses

SpecMissing == InitMissing /\ [][NextMissing]_vars

\* The name replacer and the email handler as index.ts starts them, under
\* messages of every type and variable, reset() of the email handler, a
\* second init() of either and resizes
InitMessages ==
  /\ RandomIdle /\ TiltIdle /\ NameIdle /\ SwiperIdle
  /\ layout \in {{"main"}, {"main", "mobile"}}
  /\ viewport = "desktop"
  /\ cards = [c \in CardIds |-> CardMarkup]
  /\ emailHandler = [NewEmailHandler EXCEPT !.isListening = TRUE, !.listeners = 1]
  /\ targetCard = NoCard
  /\ emailRotations = 0
  /\ logoClicks = NoClicks
  /\ lastToggle = NoToggle
  /\ cardClicks = CardClicksFrom(cards)
  /\ nameReplacer = [NewNameReplacer EXCEPT !.isListening = TRUE, !.listeners = 1]
  /\ nameElements = [i \in 1..NameElementCount |-> NameMarkup]
  /\ svg = NewPage(0).svg
  /\ illustrations = NewPage(0).illustrations
  /\ switcher = NewPage(0).switcher
  /\ themeSvgColor = NewPage(0).themeSvgColor
  /\ lastEvent = <<>>
  /\ personalized = NotPersonalized

NextMessages ==
  \/ \E data \in MessageData : PostMessage(data)
  \/ EmailHandlerReset
  \/ EmailHandlerDestroy
  \/ EmailHandlerInit
  \/ NameReplacerDestroy
  \/ NameReplacerInit
  \/ Resize

SpecMessages == InitMessages /\ [][NextMessages]_vars

\* The interactive parts of the page as index.ts starts them: the click
\* listeners of the cards, the logos and the visual block, and the message
\* listeners of the name replacer and the email handler. The illustration
\* elements are left as the markup has them.
InteractionValues == {<<>>, <<"a">>}

InitInteractions ==
  /\ RandomIdle /\ TiltIdle /\ NameIdle /\ SwiperIdle
  /\ layout \in Layouts \ {{}}
  /\ viewport \in {"desktop", "mobile"}
  /\ cards = initProfileCardToggle([c \in CardIds |-> CardMarkup])
  /\ emailHandler = [NewEmailHandler EXCEPT !.isListening = TRUE, !.listeners = 1]
  /\ targetCard = NoCard
  /\ emailRotations = 0
  /\ logoClicks = NoClicks
  /\ lastToggle = NoToggle
  /\ cardClicks = CardClicksFrom(cards)
  /\ nameReplacer = [NewNameReplacer EXCEPT !.isListening = TRUE, !.listeners = 1]
  /\ nameElements = [i \in 1..NameElementCount |-> NameMarkup]
  /\ \E pg \in {[SwitcherInit(NewPage(0)) EXCEPT !.switcher.listening = TRUE]} :
       /\ svg = pg.svg
       /\ illustrations = pg.illustrations
       /\ switcher = pg.switcher
       /\ themeSvgColor = pg.themeSvgColor
  /\ lastEvent = <<>>
  /\ personalized = NotPersonalized

NextInteractions ==
  \/ \E target \in layout : CardClick(target)
  \/ \E parentCard \in layout : LogoClick(parentCard)
  \/ VisualBlockClick
  \/ \E variable \in {"nome", "email"}, value \in InteractionValues :
       TypebotVariableUpdate(variable, value)
  \/ Resize

SpecInteractions == InitInteractions /\ [][NextInteractions]_vars

\* A CardColorSwitcher constructed with any of the indices Math.random()
\* can give it, on a page with or without the main card, under
\* initCardColorSwitcher, clicks on the visual block, setTheme,
\* setThemeByName and personalization events. The indices given are the
\* integers from -1 to 7 and NaN; the names are two themes' and one that is
\* no theme's.
ThemeArgs == ((0 - 1)..Len(COLOR_THEMES)) \cup {NaN}

CategoryNames == {"Renda Fixa", "Outros", "Cripto"}

InitThemes ==
  /\ RandomIdle /\ TiltIdle /\ NameIdle /\ SwiperIdle
  /\ layout \in {{"main"}, {"mobile"}}
  /\ viewport = "desktop"
  /\ cards = [c \in CardIds |-> CardMarkup]
  /\ emailHandler = NewEmailHandler
  /\ targetCard = NoCard
  /\ emailRotations = 0
  /\ logoClicks = NoClicks
  /\ lastToggle = NoToggle
  /\ cardClicks = CardClicksFrom(cards)
  /\ nameReplacer = NewNameReplacer
  /\ nameElements = [i \in 1..NameElementCount |-> NameMarkup]
  /\ \E index \in 0..(Len(COLOR_THEMES) - 1) :
       /\ svg = NewPage(index).svg
       /\ illustrations = NewPage(index).illustrations
       /\ switcher = NewPage(index).switcher
       /\ themeSvgColor = NewPage(index).themeSvgColor
  /\ lastEvent = <<>>
  /\ personalized = NotPersonalized

NextThemes ==
  \/ InitCardColorSwitcher
  \/ VisualBlockClick
  \/ \E categoryName \in CategoryNames : SetThemeByName(categoryName)
  \/ \E index \in ThemeArgs : SetTheme(index)
  \/ \E themeIndex \in ThemeArgs : PersonalizationEvent(themeIndex)

SpecThemes == InitThemes /\ [][NextThemes]_vars

\* The tilt effect as index.ts starts it on a page with the main card, with
\* the email handler and the logo toggle, under logo clicks, email messages,
\* window resizes across minWidth and the callbacks of the class observer
\* and of the resize timeout
InitTilt ==
  /\ RandomIdle /\ NameIdle /\ SwiperIdle /\ PersonalIdle
  /\ layout \in {{"main"}, {"main", "mobile"}, {"main", "second"}}
  /\ viewport \in {"desktop", "mobile"}
  /\ cards = initProfileCardToggle([c \in CardIds |-> CardMarkup])
  /\ emailHandler = [NewEmailHandler EXCEPT !.isListening = TRUE, !.listeners = 1]
  /\ targetCard = NoCard
  /\ emailRotations = 0
  /\ logoClicks = NoClicks
  /\ lastToggle = NoToggle
  /\ cardClicks = CardClicksFrom(cards)
  /\ tilt = initProfileCardTilt(cards)

NextTilt ==
  \/ \E parentCard \in layout : LogoClick(parentCard)
  \/ \E value \in InteractionValues : TypebotVariableUpdate("email", value)
  \/ Resize
  \/ TiltObserverRuns
  \/ TiltResizeTimeout

SpecTilt == InitTilt /\ [][NextTilt]_vars

\* The seeds and shape indices regenerate is called with: small numbers, the
\* hashes of names, none (Date.now() is taken); no index, each generator's
\* and two indices that are none's
MaxShapeSeed == 30

ShapeSeeds ==
  {ToLimbs(k, 3) : k \in 0..MaxShapeSeed}
    \cup {getSeedFromName(name) :
            name \in EdgeNames \cup {<<>>, <<97>>, <<97, 97, 97, 97, 97, 97>>}}
    \cup {NoSeed}

ShapeIndices == {NoShape, <<0 - 1>>, <<0>>, <<1>>, <<2>>, <<3>>}

\* regenerate(seed, shapeIndex) for one illustration element of a page
\* without a theme colour: the generator is reseeded, the opacity and the
\* shape are drawn.  What is drawn does not depend on what the element
\* held, so one call is followed.
GenerateShape(seed, shapeIndex) ==
  /\ drawing = NoDrawing
  /\ \E drawn \in {RegenerateElement(SeededRandomInit(seed), BrandColor, shapeIndex)} :
       drawing' = <<[seed |-> seed, shapeIndex |-> shapeIndex,
                     element |-> drawn.element,
                     reach |-> starControlReach(
                                 GeneratorIndex(drawn.element.path[1].generator),
                                 drawn.element.path[1].drawnFrom)]>>
  /\ UNCHANGED exceptShapes

\* Shapes generated on their own
InitShapes == RandomIdle /\ TiltIdle /\ NameIdle /\ CardsIdle /\ SwiperIdle /\ PersonalIdle

NextShapes ==
  \/ \E seed \in ShapeSeeds, shapeIndex \in ShapeIndices : GenerateShape(seed, shapeIndex)
  \/ ClockTick

SpecShapes == InitShapes /\ [][NextShapes]_vars

\* The same with time passing and due timeouts running: the browser's event
\* loop leaves neither waiting for ever
SpecSwiperFair ==
  SpecSwiper /\ WF_vars(TimePasses) /\ WF_vars(TimeoutFires)

\* ------------------------------------------------------------------------
\* Claims
\* ------------------------------------------------------------------------


\* C1: two SeededRandom generators constructed with the same seed produce
\* identical output sequences: the k-th next() returns the same value on
\* both, and after equally many calls both hold the same seed.
C1_SameSeedSameSequence ==
  \A g \in GenIds, h \in GenIds :
    (gen[g].made /\ gen[h].made /\ gen[g].arg # NoSeed /\ gen[g].arg = gen[h].arg)
      => /\ \A k \in 1..Min(Len(gen[g].outs), Len(gen[h].outs)) :
              gen[g].outs[k] = gen[h].outs[k]
         /\ (Len(gen[g].outs) = Len(gen[h].outs) => gen[g].seed = gen[h].seed)

\* Two generators made from the seed 0 at different times have both
\* produced two values.
C1_Witness ==
  /\ gen["g1"].made /\ gen["g2"].made
  /\ gen["g1"].arg = <<0, 0, 0>> /\ gen["g2"].arg = <<0, 0, 0>>
  /\ Len(gen["g1"].outs) >= 2 /\ Len(gen["g2"].outs) >= 2
  /\ clock > 0

C3_EmailRotatesOnce == emailRotations <= 1

\* The rotation was applied by an email message, the handler holds the
\* address, and a second listener has been added since.
C3_Witness ==
  /\ emailRotations = 1
  /\ emailHandler.hasRotated
  /\ emailHandler.userEmail = <<(<<"a", "a">>)>>
  /\ emailHandler.listeners = 2

\* C4 (as stated): every completion message that starts the 500 ms delay is
\* eventually followed by the controller's transition to slide 2.
C4_CompletionLeadsToTransition ==
  (completion = "waiting") ~> (completion = "transitioned")

\* C4 (amended): every completion message that starts the 500 ms delay is
\* eventually followed by the controller's transition to slide 2 (both
\* directions enabled, slideTo(1), hasTransitioned set), unless the
\* controller is left without a Swiper instance: no container was found at
\* init, or destroy() was called.
C4_CompletionLeadsToTransitionOfSwiper ==
  (completion = "waiting") ~> (completion = "transitioned" \/ ~swiper.exists)

\* The delayed transition has taken the Swiper to slide 2 and the directions
\* are still enabled.
C4_Witness ==
  /\ completion = "transitioned"
  /\ swiper.exists /\ swiper.activeIndex = 1
  /\ swiper.allowSlideNext /\ swiper.allowSlidePrev
  /\ controller.hasTransitioned

DisablingPending(callbacks) ==
  \E i \in 1..Len(timers) :
    timers[i].callback \in callbacks /\ timers[i].remaining <= Speed + ResetMargin

\* A step in which a direction that was disabled becomes enabled
DirectionEnabled ==
  \/ (swiper'.allowSlideNext /\ ~swiper.allowSlideNext)
  \/ (swiper'.allowSlidePrev /\ ~swiper.allowSlidePrev)

\* A step of one of the controller's programmatic transitions
ProgrammaticTransition ==
  \/ SwiperNext
  \/ SwiperPrev
  \/ SwiperGoToSlide2
  \/ SwiperReset
  \/ (TimeoutFires /\ timers[FirstDue(timers, 1)].callback = "transitionToSlide")

\* C5: allowSlideNext and allowSlidePrev are false from initialisation on;
\* one becomes true only in a programmatic transition (the delayed
\* completion transition, next(), prev(), goToSlide2(), reset()); and while
\* one is true a timeout that sets it false again is pending, due at most
\* speed + 100 ms later.
C5_ProgrammaticOnly ==
  /\ [](swiper.allowSlideNext => DisablingPending({"disableBoth", "disableNext"}))
  /\ [](swiper.allowSlidePrev => DisablingPending({"disableBoth", "disablePrev"}))
  /\ [][DirectionEnabled => ProgrammaticTransition]_vars

\* The completion transition is over: the Swiper stands on slide 2 with both
\* directions disabled again and no timeout left.
C5_Witness ==
  /\ completion = "transitioned"
  /\ swiper.exists /\ swiper.activeIndex = 1
  /\ ~swiper.allowSlideNext /\ ~swiper.allowSlidePrev
  /\ timers = <<>>

\* A "nome" message with this value reaches a listening name replacer and
\* carries a valid name
NameCaptured(value) ==
  /\ TypebotVariableUpdate("nome", value)
  /\ nameReplacer.listeners > 0
  /\ sanitizeName(value) # <<>>

\* What the message with this value is to leave behind: the event dispatched
\* with the name's personalization, taken up by the generator and the switcher
PersonalizationDispatched(value) ==
  LET data == getPersonalizationFromName(CharCodes(sanitizeName(value)))
  IN  /\ lastEvent' = <<data>>
      /\ svg'.lastPersonalization =
           <<[seed |-> data.seed, shapeIndex |-> data.shapeIndex]>>
      /\ switcher'.currentThemeIndex = data.themeIndex

\* C6: whenever the name replacer captures a valid name from a Typebot
\* message, a user-name-personalization event is dispatched whose detail is
\* getPersonalizationFromName of that name, so that the generator has taken
\* up its seed and shapeIndex and the colour switcher its themeIndex.
C6_NameCapturedDispatchesPersonalization ==
  [][\A value \in NameValues : NameCaptured(value) => PersonalizationDispatched(value)]_vars

\* C7: once a user-name-personalization event has been handled, the
\* illustrations keep the path data they were given then, drawn by the
\* generator of the event's shapeIndex, through every later
\* card-rotation-toggle event and every later change of theme.
C7_PersonalizedShapePersists ==
  personalized # NotPersonalized =>
    /\ Paths(illustrations) = personalized[1].paths
    /\ \A i \in 1..Len(illustrations) :
         illustrations[i].path[1].generator = lastEvent[1].shapeName

C7_Witness ==
  /\ personalized # NotPersonalized
  /\ personalized[1].toggled /\ personalized[1].themed
  /\ cards["main"].rotate
  /\ clock > 0
  /\ Paths(illustrations) = personalized[1].paths

\* C8: every logo click on a card toggles its rotation, so a card has the
\* rotate class exactly when the number of logo clicks on it, counted from
\* the moment it last stood on the front, is odd, and exactly when that
\* number is even if it was the email handler (or rotateToBack) that had
\* turned it to the back.
C8_LogoClickParity ==
  \A c \in layout :
    cards[c].rotate = (logoClicks[c].startedRotated # logoClicks[c].odd)

\* The email handler rotated the main card, and an odd number of logo
\* clicks since has it on the front again.
C8_Witness ==
  /\ emailRotations = 1
  /\ logoClicks["main"].startedRotated
  /\ logoClicks["main"].odd
  /\ ~cards["main"].rotate
  /\ cards["main"].frontActive

C10_ToggleReportsActualState ==
  lastToggle # NoToggle =>
    /\ lastToggle[1].returned = lastToggle[1].actual
    /\ lastToggle[1].event.state = lastToggle[1].actual
    /\ lastToggle[1].event.isRotated = (lastToggle[1].actual = "back")

\* A Typebot message is posted to the window
TypebotMessagePosted ==
  \/ \E variable \in Variables \cup {"nome"}, value \in Values \cup NameValues :
       TypebotVariableUpdate(variable, value)
  \/ TypebotCompletion

\* C11: once destroy() was called on a TypebotEmailHandler, a
\* TypebotNameReplacer or a SwiperController (isListening is false again), a
\* later Typebot message changes neither the object's stored state nor what
\* it writes on the page (the card classes, the name texts) nor the slide
\* position or the pending timers.
C11_DestroyedIgnoresMessages ==
  [][TypebotMessagePosted =>
       /\ ~emailHandler.isListening => UNCHANGED <<emailHandler, cards>>
       /\ ~nameReplacer.isListening => UNCHANGED <<nameReplacer, nameElements>>
       /\ ~controller.isListening => UNCHANGED <<controller, swiper, timers>>]_vars

\* The visualBlockColor of the colour switcher's current theme
CurrentThemeColor == COLOR_THEMES[switcher.currentThemeIndex + 1]

\* C12: on a page with the main card, where the colour switcher has applied
\* its theme, every illustration path is filled with the visual block colour
\* of the current theme, after every theme change and after every card
\* rotation that regenerates the shapes.
C12_FillFollowsTheme ==
  switcher.isInitialized =>
    /\ themeSvgColor = <<CurrentThemeColor>>
    /\ \A i \in 1..Len(illustrations) :
         illustrations[i].path # <<>> => illustrations[i].fill = <<CurrentThemeColor>>

C12_Witness ==
  /\ switcher.isInitialized
  /\ lastToggle # NoToggle
  /\ personalized # NotPersonalized /\ personalized[1].toggled
  /\ personalized[1].clicks = 2
  /\ \A i \in 1..Len(illustrations) : illustrations[i].fill = <<CurrentThemeColor>>

\* C13: a click on the visual block moves the colour switcher to the next
\* theme, from the last theme to the first, and applies it; so the theme is
\* the one the last personalization set moved on by the clicks made since,
\* counted modulo the number of themes, and 7 clicks lead back to it.
C13_ClickAdvancesTheme ==
  /\ [](personalized # NotPersonalized /\ switcher.isInitialized =>
          switcher.currentThemeIndex =
            (lastEvent[1].themeIndex + personalized[1].clicks) % Len(COLOR_THEMES))
  /\ [][VisualBlockClick =>
          /\ switcher'.currentThemeIndex =
               (switcher.currentThemeIndex + 1) % Len(COLOR_THEMES)
          /\ themeSvgColor' = <<COLOR_THEMES[switcher'.currentThemeIndex + 1]>>]_vars

C13_Witness ==
  /\ personalized # NotPersonalized
  /\ personalized[1].themed /\ personalized[1].clicks = 0
  /\ switcher.currentThemeIndex = lastEvent[1].themeIndex
  /\ themeSvgColor = <<COLOR_THEMES[lastEvent[1].themeIndex + 1]>>

\* C14: a name typed in Typebot leaves the profile card with exactly the
\* classes a click that activates it leaves (toggleAllCards(true)): active_fill
\* on the card, active on its visual block and on its shadow, and the
\* rotation classes as they were.
C14_NameActivatesLikeClick ==
  [][\A value \in NameValues :
       /\ TypebotVariableUpdate("nome", value)
       /\ nameReplacer.listeners > 0
       /\ sanitizeName(value) # <<>>
       /\ querySelector(WrapperCards) # NoCard
       => cards'[querySelector(WrapperCards)]
            = toggleAllCards(cards, TRUE)[querySelector(WrapperCards)]]_vars

\* (1664525 * seed + 1013904223) mod 2^32 in integer arithmetic
LcgExact(seed) ==
  LET sum == AddLimbs(MulLimbs(LcgA % LimbBase, LcgA \div LimbBase, seed, 5),
                      ToLimbs(LcgC, 5), 5)
  IN <<sum[1], sum[2], 0>>

\* C16: every next() replaces the seed by exactly
\* (1664525 * seed + 1013904223) mod 2^32 and returns that value / 2^32,
\* whatever seed the generator was constructed with, Date.now() included.
C16_NextIsLcg ==
  [][\A g \in GenIds :
       GenNext(g) =>
         /\ gen'[g].seed = LcgExact(gen[g].seed)
         /\ gen'[g].outs[Len(gen'[g].outs)] = SeedFraction(LcgExact(gen[g].seed))]_vars

\* The results of getPersonalizationFromName that are held
CallResults ==
  {firstCall[i] : i \in 1..Len(firstCall)} \cup {secondCall[i] : i \in 1..Len(secondCall)}

C18_HashPositive ==
  \A r \in CallResults :
    /\ Len(r.hash) = 2
    /\ \A i \in 1..2 : r.hash[i] \in 0..(LimbBase - 1)
    /\ r.hash # <<0, 0>>

\* C15 (as stated): every point and every control point of a generated
\* path has x and y in 0..120.  A point of the 120 x 120 viewBox is at most
\* 60 * sqrt(2) from its centre (60, 60), so the squared distance of the
\* first control point of every tip from the centre is at most twice 60^2.
C15_InsideViewport ==
  drawing # NoDrawing =>
    \A i \in DOMAIN drawing[1].reach : drawing[1].reach[i] <= 2000000

SameShapes ==
  /\ Len(illustrations') = Len(illustrations)
  /\ \A i \in 1..Len(illustrations) :
       /\ illustrations'[i].path = illustrations[i].path
       /\ illustrations'[i].opacity = illustrations[i].opacity

\* C21: when the illustrations were drawn by regenerate(seed, shapeIndex),
\* another call of regenerate with the same seed and shapeIndex (the event of
\* the same name again, or a card-rotation-toggle event, which repeats the
\* stored arguments) gives every element the same path data and the same
\* opacity, whatever the time and the theme are by then: no step that leaves
\* the stored seed and shapeIndex as they are changes either.
C21_SameSeedSameShape ==
  [][(/\ svg.listening
      /\ svg.lastPersonalization # <<>>
      /\ svg'.lastPersonalization = svg.lastPersonalization)
       => SameShapes]_vars

\* The shapes of a personalization were drawn again at a later time, by a
\* card-rotation-toggle event, before any change of theme.
C21_Witness ==
  /\ personalized # NotPersonalized
  /\ personalized[1].toggled /\ ~personalized[1].themed
  /\ clock = MaxClock
  /\ svg.lastPersonalization # <<>>
  /\ \A i \in 1..Len(illustrations) :
       illustrations[i].path # <<>> /\ illustrations[i].opacity # <<>>

\* C22: the name the TypebotNameReplacer stores, and the text of every
\* element it has written the name to, holds no "<" and no ">"; the stored
\* name neither starts nor ends with a space and has at most 100 characters.
C22_NameIsSanitized ==
  /\ nameReplacer.userName # NoText =>
       /\ \A i \in 1..Len(nameReplacer.userName[1]) :
            nameReplacer.userName[1][i] \notin {"<", ">"}
       /\ Len(nameReplacer.userName[1]) <= 100
       /\ nameReplacer.userName[1] # <<>>
       /\ Head(nameReplacer.userName[1]) # " "
       /\ nameReplacer.userName[1][Len(nameReplacer.userName[1])] # " "
  /\ \A e \in 1..Len(nameElements) :
       \A i \in 1..Len(nameElements[e].text) : nameElements[e].text[i] \notin {"<", ">"}

\* C23: when a name is set, by a "nome" message that a listener handles or
\* by setUserName, and its sanitized form is not empty, every
\* [card-info="name"] element that showed ****** shows exactly the sanitized
\* name afterwards.
C23_AsterisksBecomeName ==
  [][\A value \in ReplacerValues :
       (/\ \/ SetUserName(value)
           \/ TypebotVariableUpdate("nome", value) /\ nameReplacer.listeners > 0
        /\ sanitizeName(value) # <<>>)
       => \A e \in 1..Len(nameElements) :
            nameElements[e].text = NameMarkup.text
              => nameElements'[e].text = sanitizeName(value)]_vars

C26_TransitionsOnce ==
  [][~(/\ controller.hasTransitioned
       /\ swiper.exists
       /\ FirstDue(timers, 1) # 0
       /\ timers[FirstDue(timers, 1)].callback = "transitionToSlide"
       /\ TimeoutFires)]_vars

\* C27: whatever calls of init() and destroy() were made, the controller has
\* at most one message listener added to the window, so that a Typebot
\* message is handled at most once by it.
C27_OneListener == controller.listeners <= 1

\* C28: every profile card that has the click toggle has toggleState 1
\* exactly when it carries active_fill, whatever card clicks, name and email
\* messages and logo clicks came before.
C28_ToggleStateIsActiveFill ==
  \A c \in layout :
    cards[c].clickListener
      => ((ToggleStateOrZero(cards[c]) = 1) <=> cards[c].activeFill)

\* C29: every card of the page has rotate exactly when its rotation
\* elements have active and its front elements do not, after any email
\* messages and logo clicks.
C29_RotateMatchesFaces ==
  \A c \in layout :
    cards[c].rotate <=> (cards[c].rotationActive /\ ~cards[c].frontActive)

\* The email message has turned the mobile card, and the logo of the main
\* card was clicked twice: the main card is on its front again.
C29_Witness ==
  /\ layout = {"main", "mobile"}
  /\ emailHandler.hasRotated /\ emailRotations = 1
  /\ cards["mobile"].rotate /\ cards["mobile"].rotationActive
  /\ ~cards["mobile"].frontActive
  /\ targetCard = "main"
  /\ lastToggle # NoToggle /\ lastToggle[1].returned = "front"
  /\ ~cards["main"].rotate /\ cards["main"].frontActive
  /\ ~cards["main"].rotationActive /\ cards["main"].activeFill

\* C30: the colour switcher's current theme index is always one of 0..6, so
\* that getCurrentTheme() returns one of the 7 themes.
C30_ThemeIndexValid ==
  switcher.currentThemeIndex \in 0..(Len(COLOR_THEMES) - 1)

\* C31: once a name was accepted, every [card-info="name"] element shows
\* the name getUserName() returns. Names holding a "$", which the
\* replacement expands, are left aside.
C31_DisplayedNameIsUserName ==
  (/\ nameReplacer.userName # NoText
   /\ \A i \in 1..Len(nameReplacer.userName[1]) : nameReplacer.userName[1][i] # "$")
  => \A e \in 1..Len(nameElements) : nameElements[e].text = nameReplacer.userName[1]

\* C32: an email message whose value is empty after sanitization rotates
\* no card and does not use up the one-time rotation: the cards and the
\* handler, the stored email included, are left as they were.
C32_EmptyEmailDoesNotRotate ==
  [][\A value \in Values :
       (sanitizeInput(value) = <<>> /\ TypebotVariableUpdate("email", value))
       => (cards' = cards /\ emailHandler' = emailHandler)]_vars

\* C33: once the class observer's callback has run for every class change
\* and no resize timeout is pending, the tilt is active only if the main
\* card has no rotate class and the viewport is at least minWidth wide; and
\* isTiltActive says whether the card has a VanillaTilt instance.
C33_TiltOnlyOnUnrotatedDesktop ==
  /\ tilt.isTiltActive = tilt.vanillaTilt
  /\ (tilt.started /\ ~tilt.records /\ ~tilt.resizeTimeout /\ tilt.isTiltActive)
       => (~cards["main"].rotate /\ isDesktop)

\* The card was turned and turned back and the window was made narrow and
\* wide again, all callbacks have run and the tilt is active again.
C33_Witness ==
  /\ tilt.started /\ ~tilt.records /\ ~tilt.resizeTimeout
  /\ tilt.isTiltActive /\ tilt.vanillaTilt
  /\ isDesktop /\ ~cards["main"].rotate
  /\ lastToggle # NoToggle /\ lastToggle[1].returned = "front" /\ targetCard = "main"
  /\ emailHandler.hasRotated

\* C34: every value next() has returned lies in [0, 1): it is not negative
\* and it is a numerator below 2^32 over 2^32.
C34_NextInUnitInterval ==
  \A g \in GenIds :
    \A k \in 1..Len(gen[g].outs) :
      /\ ~gen[g].outs[k].negative
      /\ gen[g].outs[k].denBits = 32
      /\ \A i \in 1..2 : gen[g].outs[k].num[i] \in 0..(LimbBase - 1)

\* C35: a name that is empty after sanitizeName, given by setUserName or by
\* a "nome" message, leaves the stored name, the text of the name elements
\* and the classes of the cards as they were.
C35_EmptyNameIsSkipped ==
  [][\A name \in ReplacerValues :
       (sanitizeName(name) = <<>>
          /\ (SetUserName(name) \/ TypebotVariableUpdate("nome", name)))
       => (nameReplacer' = nameReplacer /\ nameElements' = nameElements
             /\ cards' = cards)]_vars

\* A name is stored and shown and the replacer listens: the state in which
\* a message with a name of spaces and angle brackets arrives.
C35_Witness ==
  /\ nameReplacer.userName = <<(<<"a">>)>>
  /\ nameReplacer.listeners >= 1
  /\ \A e \in 1..Len(nameElements) : nameElements[e].text = <<"a">>
  /\ \E name \in ReplacerValues : name # <<>> /\ sanitizeName(name) = <<>>

\* C36: initSVGIllustration on a page without illustration elements,
\* rotateToBack without a profile card and SwiperController.init without the
\* Swiper container leave the document as it was: the cards and their
\* classes, the name elements, the illustration elements, the theme
\* attribute; and no Swiper instance is made.
C36_MissingElementsChangeNothing ==
  [][((illustrations = <<>> /\ InitSVGIllustration)
        \/ (findProfileCard(targetCard) = NoCard /\ LogoRotateTo("back", NoCard))
        \/ (~container /\ SwiperInit))
     => (/\ cards' = cards
         /\ nameElements' = nameElements
         /\ illustrations' = illustrations
         /\ themeSvgColor' = themeSvgColor
         /\ swiper' = swiper
         /\ lastToggle' = lastToggle)]_vars

\* The page has no card, no container and no illustration element; the
\* SVG generator and the Swiper controller were started on it and the logo
\* toggle still has no card to turn.
C36_Witness ==
  /\ layout = {} /\ findProfileCard(targetCard) = NoCard
  /\ ~container /\ controller.listeners >= 1 /\ ~swiper.exists
  /\ illustrations = <<>> /\ svg.listening
  /\ cards = [c \in CardIds |-> CardMarkup]

\* C37: a message that is neither a typebot-completion nor a
\* typebot-variable-update of "nome" leaves the name replacer's stored name
\* and the name elements as they were; a message that is no
\* typebot-variable-update of "email", "telefone" or "phone" leaves the
\* email handler's stored state as it was; a message that is neither leaves
\* the classes of the cards, the illustrations and the theme attribute as
\* they were. Stated from the change: a step that changes one of these is
\* not the hearing of a message of the other kinds.
C37_OtherMessagesAreIgnored ==
  [][/\ (nameReplacer' # nameReplacer \/ nameElements' # nameElements)
          => \A data \in MessageData :
               ~(data.type = "typebot-completion"
                   \/ (data.type = "typebot-variable-update"
                         /\ data.variable = <<"nome">>))
                 => ~PostMessage(data)
     /\ emailHandler' # emailHandler
          => \A data \in MessageData :
               ~(data.type = "typebot-variable-update"
                   /\ data.variable \in {<<"email">>, <<"telefone">>, <<"phone">>})
                 => ~PostMessage(data)
     /\ (cards' # cards \/ illustrations' # illustrations
            \/ themeSvgColor' # themeSvgColor)
          => \A data \in MessageData :
               ~(data.type = "typebot-completion"
                   \/ (data.type = "typebot-variable-update"
                         /\ data.variable \in {<<"nome">>, <<"email">>,
                                                <<"telefone">>, <<"phone">>}))
                 => ~PostMessage(data)]_vars

\* An email message was heard by both listeners: the email handler stored
\* the address and turned the card, the name replacer stored nothing and
\* the name elements still show their asterisks.
C37_Witness ==
  /\ emailHandler.userEmail = <<(<<"a">>)>> /\ emailHandler.hasRotated
  /\ cards["main"].rotate
  /\ nameReplacer.listeners >= 1 /\ nameReplacer.userName = NoText
  /\ nameElements = [i \in 1..NameElementCount |-> NameMarkup]

====
